---------------------------- MODULE Spec2Model ----------------------------
(***************************************************************************)
(* State-machine model of the telemetry tool adapters of insight-bot:      *)
(*   chatbot/app/mcp_servers/jaeger.py, loki.py, prometheus.py.            *)
(*                                                                         *)
(* One tool invocation is followed from the call to its outcome.  A tool   *)
(* coroutine is suspended only while its HTTP GET is awaited, so a step of *)
(* the model is the code between two suspension points:                    *)
(*   Invoke       entry of the tool up to the first GET (or to the raise   *)
(*                of a validation error),                                  *)
(*   Respond      the GET completes: gateway, try body, else block; for a  *)
(*                composite tool the entry is recorded and the next        *)
(*                sub-query is issued,                                     *)
(*   Finish       the caller takes the outcome.                            *)
(*                                                                         *)
(* Python values are modelled by their shape: what the code tests of them  *)
(* (mapping / list / scalar, presence of a key, truthiness, length).       *)
(*                                                                         *)
(* The module also follows the chatbot that uses the adapters:              *)
(*   AssistantSpec     the methods of one Assistant (chatbot/app/agent.py), *)
(*                     called in any order,                                 *)
(*   ApplicationSpec   the script runs of one session of the application    *)
(*                     (chatbot/app/main.py, ui.py).                        *)
(***************************************************************************)
EXTENDS Integers, Sequences, FiniteSets, TLC

\* Largest number of items (list elements, mapping keys) of a modelled JSON payload.
MaxItems == 2

-----------------------------------------------------------------------------
(* Backends and their error kinds                                          *)

Backends == {"jaeger", "loki", "prometheus"}

\* class JaegerAPIError / LokiAPIError / PrometheusAPIError (Exception)
JaegerAPIError == "JaegerAPIError"
LokiAPIError == "LokiAPIError"
PrometheusAPIError == "PrometheusAPIError"

ErrorKind(backend) ==
    CASE backend = "jaeger" -> JaegerAPIError
      [] backend = "loki" -> LokiAPIError
      [] backend = "prometheus" -> PrometheusAPIError

-----------------------------------------------------------------------------
(* Tools                                                                   *)

JaegerTools == {"jaeger.get_services", "jaeger.get_trace",
                "jaeger.analyze_service_dependencies",
                "jaeger.get_service_operations", "jaeger.search_traces"}

LokiTools == {"loki.query_logs", "loki.get_log_labels", "loki.get_label_values",
              "loki.search_logs_by_trace_id"}

PrometheusSingle == {"prometheus.query_prometheus", "prometheus.query_range_prometheus",
                     "prometheus.get_metrics_metadata", "prometheus.get_label_names",
                     "prometheus.get_label_values", "prometheus.get_series"}

CompositeTools == {"prometheus.analyze_http_metrics",
                   "prometheus.check_alerting_thresholds"}

PrometheusTools == PrometheusSingle \cup CompositeTools

Tools == JaegerTools \cup LokiTools \cup PrometheusTools

BackendOf(tool) ==
    IF tool \in JaegerTools THEN "jaeger"
    ELSE IF tool \in LokiTools THEN "loki"
    ELSE "prometheus"

\* The keys of the `queries` mapping of analyze_http_metrics, in definition order.
queries == << "request_rate", "avg_response_time", "p95_response_time",
              "p99_response_time", "error_rate", "client_error_rate",
              "active_requests", "avg_response_size" >>

\* The keys of the `alert_queries` mapping of check_alerting_thresholds, in
\* definition order, each with its severity.
alert_queries == << [name |-> "high_error_rate", severity |-> "critical"],
                    [name |-> "high_response_time", severity |-> "warning"],
                    [name |-> "high_active_requests", severity |-> "warning"],
                    [name |-> "low_request_rate", severity |-> "critical"],
                    [name |-> "high_client_error_rate", severity |-> "warning"] >>

\* Number of sub-queries a composite tool loops over.
SubQueryCount(tool) ==
    IF tool = "prometheus.analyze_http_metrics" THEN Len(queries)
    ELSE IF tool = "prometheus.check_alerting_thresholds" THEN Len(alert_queries)
    ELSE 0

-----------------------------------------------------------------------------
(* Tool parameters.  A parameter value is modelled by what the code tests: *)
(*   ""   None or empty (falsy),                                           *)
(*   "x"  a non-empty, well-formed value,                                  *)
(*   "?"  a non-empty text that is no ISO-8601 timestamp (only for the     *)
(*        time parameters),                                                *)
(*   "!"  a relative duration that reaches back before the year 1 (only    *)
(*        for the time parameters of the log tools).                       *)
(* a, b, c are the tool's parameters in signature order; a parameter the   *)
(* tool does not have is "x".                                              *)

Args(A, B, C) == [a : A, b : B, c : C]

ArgsOf(tool) ==
    CASE tool \in {"jaeger.get_services", "loki.get_log_labels",
                   "prometheus.get_metrics_metadata", "prometheus.get_label_names"}
            -> Args({"x"}, {"x"}, {"x"})
      [] tool \in {"jaeger.get_trace", "jaeger.get_service_operations",
                   "jaeger.analyze_service_dependencies",
                   "loki.get_label_values", "prometheus.query_prometheus",
                   "prometheus.get_label_values",
                   "prometheus.analyze_http_metrics",
                   "prometheus.check_alerting_thresholds"}
            -> Args({"", "x"}, {"x"}, {"x"})
      \* service, start_time, end_time
      [] tool = "jaeger.search_traces" -> Args({"", "x"}, {"", "x", "?"}, {"", "x", "?"})
      \* query, start_time, end_time
      [] tool = "loki.query_logs"
            -> Args({"", "x"}, {"", "x", "?", "!"}, {"", "x", "?", "!"})
      \* trace_id, label, start_time
      [] tool = "loki.search_logs_by_trace_id"
            -> Args({"", "x"}, {"", "x"}, {"", "x", "?", "!"})
      \* query, start, end
      [] tool = "prometheus.query_range_prometheus" -> Args({"", "x"}, {"", "x"}, {"", "x"})
      \* match: the empty list, one selector, several selectors
      [] tool = "prometheus.get_series" -> Args({"", "x", "xx"}, {"x"}, {"x"})

NoArgs == [a |-> "x", b |-> "x", c |-> "x"]

-----------------------------------------------------------------------------
(* What the backend can answer to one HTTP GET                             *)

\* The `data` member of a decoded body:
\*   shape   "absent" (no such key), "null", "num", "list", "map"
\*   n       len(data) of a list or a mapping
\*   elem    "ok": the items are the mappings / pairs the tool expects,
\*           "bad": an item is a scalar where the tool expects a mapping
\*   r       data["result"] of a mapping: "absent", "null" or "list"
\*   rn      len(data["result"])
Data(shape, n, elem, r, rn) == [shape |-> shape, n |-> n, elem |-> elem, r |-> r, rn |-> rn]

NoData == Data("absent", 0, "ok", "absent", 0)

DataValues ==
    {NoData, Data("null", 0, "ok", "absent", 0), Data("num", 0, "ok", "absent", 0)}
    \cup {Data("list", 0, "ok", "absent", 0)}
    \cup {Data("list", n, e, "absent", 0) : n \in 1..MaxItems, e \in {"ok", "bad"}}
    \cup {Data("map", 0, "ok", "absent", 0)}
    \cup {Data("map", n, e, "absent", 0) : n \in 1..MaxItems, e \in {"ok", "bad"}}
    \cup {Data("map", 1, "ok", "null", 0), Data("map", 1, "ok", "list", 0)}
    \cup {Data("map", 1, e, "list", rn) : rn \in 1..MaxItems, e \in {"ok", "bad"}}

\* A decoded JSON body:
\*   top       "map", "list" or "scalar" (null or a number)
\*   status    the "status" member: "success", "error" or "absent"
\*   error     the "error" member: the backend's error text, or "absent"
\*   warnings  whether a "warnings" member is present
Body(top, status, error, warnings, data) ==
    [top |-> top, status |-> status, error |-> error, warnings |-> warnings, data |-> data]

NoBody == Body("scalar", "absent", "absent", FALSE, NoData)

ErrorTexts == {"bad_data: parse error"}

Bodies ==
    {NoBody, Body("list", "absent", "absent", FALSE, NoData)}
    \cup {Body("map", s, e, w, d) : s \in {"success", "error", "absent"},
                                    e \in ErrorTexts \cup {"absent"},
                                    w \in BOOLEAN, d \in DataValues}

\* The outcome of http_client.get(url, params):
\*   net        "fault": a transport-level fault (DNS, connect, timeout) was raised
\*   code       the HTTP status code of the response
\*   decodable  whether the response body is JSON text
\*   body       the decoded body
Outcome(net, code, decodable, body) ==
    [net |-> net, code |-> code, decodable |-> decodable, body |-> body]

NoOutcome == Outcome("none", 0, FALSE, NoBody)

StatusCodes == {200, 302, 404, 500}

Outcomes ==
    {Outcome("fault", 0, FALSE, NoBody)}
    \cup {Outcome("ok", c, d, NoBody) : c \in StatusCodes \ {200}, d \in BOOLEAN}
    \cup {Outcome("ok", 200, FALSE, NoBody)}
    \cup {Outcome("ok", 200, TRUE, b) : b \in Bodies}

\* The outcomes drawn for the GET of a sub-query of a composite tool (all of
\* them GETs of /query): the faults, and the bodies a /query answer can have,
\* an error answer carrying no data and a success answer no error text.
SubQueryOutcomes ==
    {o \in Outcomes :
        \/ o.net = "fault"
        \/ o.code # 200
        \/ ~o.decodable
        \/ o.body.top # "map"
        \/ /\ o.body.status # "success"
           /\ o.body.data = NoData
           /\ ~o.body.warnings
        \/ /\ o.body.status = "success"
           /\ o.body.error = "absent"
           /\ ~o.body.warnings
           /\ o.body.data.elem = "ok"
           /\ o.body.data.shape \in {"list", "map"} => o.body.data.n <= 1}

-----------------------------------------------------------------------------
(* Results of a call: a returned value or a raised exception               *)

\* The value a tool returns:
\*   status    the backend's status copied into the result ("none" when the
\*             tool has no such field)
\*   data      the shape of the payload passed through
\*   n         the item count reported (total_labels, spans, total_entries, ...)
\*   warnings  whether a "warnings" key was added
Val(status, data, n, warnings) ==
    [status |-> status, data |-> data, n |-> n, warnings |-> warnings]

NoVal == Val("none", "none", 0, FALSE)

\* The message of no exception.
NoMsg == << "none", "" >>

Ret(v) == [k |-> "ret", exc |-> "none", msg |-> NoMsg, val |-> v]
Exc(e, m) == [k |-> "exc", exc |-> e, msg |-> m, val |-> NoVal]
NoRes == [k |-> "none", exc |-> "none", msg |-> NoMsg, val |-> NoVal]

\* A tool suspended at its HTTP GET.
Await == [k |-> "await", exc |-> "none", msg |-> NoMsg, val |-> NoVal]

\* An exception message: the fixed text and the text interpolated into it.
Msg(text, detail) == << text, detail >>

\* Results of a gateway: the decoded body, or a raised error, or still awaiting.
GRet(b) == [k |-> "ret", exc |-> "none", msg |-> NoMsg, body |-> b]
GExc(e, m) == [k |-> "exc", exc |-> e, msg |-> m, body |-> NoBody]
GAwait == [k |-> "await", exc |-> "none", msg |-> NoMsg, body |-> NoBody]

\* What a gateway's failure or suspension is to the tool that called it.
Propagate(g) == [k |-> g.k, exc |-> g.exc, msg |-> g.msg, val |-> NoVal]

\* httpx: Response.raise_for_status() raises HTTPStatusError unless 2xx.
is_success(code) == code >= 200 /\ code <= 299

-----------------------------------------------------------------------------
(* HTTP request gateways                                                   *)

\* Variant of Gateway without raise_for_status(): the body of an answer is
\* decoded whatever its status code.
Gateway_IgnoringStatus(backend, name, o) ==
    IF o.net = "none" THEN GAwait
    ELSE IF o.net = "fault"
        THEN GExc(ErrorKind(backend), Msg(name, "transport fault"))
    ELSE IF ~o.decodable
        THEN GExc(ErrorKind(backend), Msg("Unexpected error: ", "JSONDecodeError"))
    ELSE GRet(o.body)

\* Variant of Gateway that sends the GET again after a transport fault.
Gateway_Retrying(backend, name, o) ==
    IF o.net = "none" \/ o.net = "fault" THEN GAwait
    ELSE IF ~is_success(o.code)
        THEN GExc(ErrorKind(backend), Msg(name, "status error"))
    ELSE IF ~o.decodable
        THEN GExc(ErrorKind(backend), Msg("Unexpected error: ", "JSONDecodeError"))
    ELSE GRet(o.body)

\* The common body of the three gateways: one GET, raise_for_status(), json().
\* httpx.HTTPError (transport fault, status) and every other Exception (a body
\* that is no JSON) are both re-raised as the backend's error.  o = NoOutcome
\* stands for the GET that has not completed yet.
Gateway(backend, name, o) ==
    IF o.net = "none" THEN GAwait
    ELSE IF o.net = "fault"
        THEN GExc(ErrorKind(backend), Msg(name, "transport fault"))
    ELSE IF ~is_success(o.code)
        THEN GExc(ErrorKind(backend), Msg(name, "status error"))
    ELSE IF ~o.decodable
        THEN GExc(ErrorKind(backend), Msg("Unexpected error: ", "JSONDecodeError"))
    ELSE GRet(o.body)

make_jaeger_request(o) == Gateway("jaeger", "Failed to call Jaeger API: ", o)

make_loki_request(o) == Gateway("loki", "Failed to call Loki API: ", o)

make_prometheus_request(o) == Gateway("prometheus", "Failed to call Prometheus API: ", o)

-----------------------------------------------------------------------------
(* The except clauses every tool ends its try block with:                  *)
(*     except <Backend>APIError: raise                                     *)
(*     except Exception as exc: raise <Backend>APIError(msg) from exc      *)

\* Variant of Except without the `except Exception` clause.
Except_BackendOnly(backend, text, r) == r

Except(backend, text, r) ==
    IF r.k = "exc" /\ r.exc # ErrorKind(backend)
    THEN Exc(ErrorKind(backend), Msg(text, r.msg[1]))
    ELSE r

\* Faults of the Python runtime on a value of the wrong shape.
AttributeError(what) == Exc("AttributeError", Msg(what, ""))
TypeError(what) == Exc("TypeError", Msg(what, ""))
KeyError(what) == Exc("KeyError", Msg(what, ""))
ValueError(what) == Exc("ValueError", Msg(what, ""))
OverflowError(what) == Exc("OverflowError", Msg(what, ""))

\* `"data" not in response` of the Jaeger and Loki tools, for a response that
\* is a mapping or a list (on a scalar the test itself is a TypeError).
data_not_in(response) ==
    response.top = "list" \/ (response.top = "map" /\ response.data.shape = "absent")

\* len(x) / iteration over x is defined for lists and mappings only.
Sized(d) == d.shape \in {"list", "map"}

-----------------------------------------------------------------------------
(* Time texts and instants (loki.py).  A text the code inspects character   *)
(* by character is a sequence of characters; << >> is None or the empty     *)
(* text.  An element longer than one character stands for that run of       *)
(* characters (a whole well-formed ISO-8601 timestamp).                     *)

Digits == << "0", "1", "2", "3", "4", "5", "6", "7", "8", "9" >>

IsDigit(c) == \E d \in 1..10 : Digits[d] = c

DigitValue(c) == (CHOOSE d \in 1..10 : Digits[d] = c) - 1

\* The value of a run of decimal digits.
DecimalValue(ds) ==
    LET value[n \in 0..Len(ds)] ==
            IF n = 0 THEN 0 ELSE 10 * value[n - 1] + DigitValue(ds[n])
    IN  value[Len(ds)]

\* str.strip() of the blanks int() ignores around a number.
RECURSIVE strip(_)
strip(t) ==
    IF t # << >> /\ Head(t) = " " THEN strip(Tail(t))
    ELSE IF t # << >> /\ t[Len(t)] = " " THEN strip(SubSeq(t, 1, Len(t) - 1))
    ELSE t

\* int(text): the number a text denotes: blanks around it, an optional sign,
\* decimal digits with single underscores between them; ValueError (ok =
\* FALSE) for every other text.
int(text) ==
    LET stripped == strip(text)
        signed == stripped # << >> /\ Head(stripped) \in {"+", "-"}
        body == IF signed THEN Tail(stripped) ELSE stripped
        valid ==
            /\ body # << >>
            /\ \A i \in 1..Len(body) :
                  \/ IsDigit(body[i])
                  \/ /\ body[i] = "_"
                     /\ i > 1 /\ i < Len(body)
                     /\ IsDigit(body[i - 1]) /\ IsDigit(body[i + 1])
        magnitude == DecimalValue(SelectSeq(body, IsDigit))
    IN  IF ~valid THEN [ok |-> FALSE, v |-> 0]
        ELSE [ok |-> TRUE,
              v |-> IF signed /\ Head(stripped) = "-" THEN 0 - magnitude ELSE magnitude]

\* An instant of datetime: the proleptic Gregorian ordinal of its day (day 1
\* is 0001-01-01) and the second of that day.  Microseconds are left out.
Instant(day, sec) == [day |-> day, sec |-> sec]

NoInstant == Instant(0, 0)

\* datetime.min and datetime.max, as ordinals.
MinOrdinal == 1
MaxOrdinal == 3652059

\* timedelta(seconds=value) / (minutes=value) / (hours=value), normalised to
\* days and seconds of a day as timedelta keeps them.
timedelta(unit, value) ==
    CASE unit = "s" -> [days |-> value \div 86400, seconds |-> value % 86400]
      [] unit = "m" -> [days |-> value \div 1440, seconds |-> (value % 1440) * 60]
      [] unit = "h" -> [days |-> value \div 24, seconds |-> (value % 24) * 3600]

\* datetime - timedelta, before the range check.
Minus(t, delta) ==
    LET s == t.sec - delta.seconds
    IN  Instant(t.day - delta.days + (s \div 86400), s % 86400)

\* A datetime is between datetime.min and datetime.max; an arithmetic result
\* outside raises OverflowError("date value out of range").
Representable(t) == t.day >= MinOrdinal /\ t.day <= MaxOrdinal

\* The readings of the clock (datetime.now(UTC)) the calls are followed at:
\* instants of 2026-11-01.
ClockReadings == {Instant(739921, s) : s \in {1800, 86399}}

\* The text of a well-formed ISO-8601 timestamp, and the instant
\* datetime.fromisoformat reads from it.
IsoText == "2024-01-01T00:00:00"
IsoInstant == Instant(738886, 0)

\* datetime.fromisoformat(text): ValueError (ok = FALSE) unless the text is a
\* well-formed timestamp.
fromisoformat(text) ==
    IF text = << IsoText >> THEN [ok |-> TRUE, at |-> IsoInstant]
    ELSE [ok |-> FALSE, at |-> NoInstant]

\* `c in text` for a character c.
Contains(text, c) ==
    \E i \in 1..Len(text) : text[i] = c \/ (c = "T" /\ text[i] = IsoText)

\* The value of a time parameter: None, a text passed as it is, or the
\* "%Y-%m-%dT%H:%M:%S.%fZ" rendering of an instant.
NoTime == [kind |-> "none", text |-> << >>, at |-> NoInstant]
Text(t) == [kind |-> "text", text |-> t, at |-> NoInstant]
strftime(t) == [kind |-> "stamp", text |-> << >>, at |-> t]

\* What a helper returns or raises.
Returned(v) == [k |-> "ret", exc |-> "none", v |-> v]
Raised(e) == [k |-> "exc", exc |-> e, v |-> NoTime]

\* _format_time_for_loki(time_str) at the clock reading utcnow.  The except
\* clause catches ValueError and TypeError only: the OverflowError of
\* `datetime.now(UTC) - delta` leaves the function.
_format_time_for_loki(time_str, utcnow) ==
    IF time_str = << >> THEN Returned(NoTime)
    ELSE IF time_str[Len(time_str)] \in {"m", "h", "s"}
        THEN LET value == int(SubSeq(time_str, 1, Len(time_str) - 1))
                 unit == time_str[Len(time_str)]
                 target_time == Minus(utcnow, timedelta(unit, value.v))
             IN  IF ~value.ok THEN Returned(Text(time_str))
                 ELSE IF ~Representable(target_time) THEN Raised("OverflowError")
                 ELSE Returned(strftime(target_time))
    ELSE IF Contains(time_str, "T")
        THEN LET dt == fromisoformat(time_str)
             IN  IF dt.ok THEN Returned(strftime(dt.at)) ELSE Returned(Text(time_str))
    ELSE Returned(Text(time_str))

\* The parameter mapping of a log query: a key the mapping lacks is NoTime.
\* _build_query_params(query, start_time, end_time, limit, direction) at the
\* clock reading utcnow; limit and direction are copied and left out.
_build_query_params(query, start_time, end_time, utcnow) ==
    LET formatted_start == _format_time_for_loki(start_time, utcnow)
        formatted_end == _format_time_for_loki(end_time, utcnow)
    IN  IF formatted_start.k = "exc"
            THEN [k |-> "exc", exc |-> formatted_start.exc, query |-> query,
                  start |-> NoTime, end |-> NoTime]
        ELSE IF formatted_end.k = "exc"
            THEN [k |-> "exc", exc |-> formatted_end.exc, query |-> query,
                  start |-> NoTime, end |-> NoTime]
        ELSE [k |-> "ret", exc |-> "none", query |-> query,
              start |-> formatted_start.v, end |-> formatted_end.v]

-----------------------------------------------------------------------------
(* Jaeger tools (jaeger.py).  Each operator is the tool's body: `args` are *)
(* its parameters, `o` the outcome of its GET (NoOutcome while awaited).   *)

get_services(args, o) ==
    LET response == make_jaeger_request(o)
        b == response.body
        try ==
            IF response.k # "ret" THEN Propagate(response)
            ELSE IF b.top = "scalar" THEN TypeError("argument is not iterable")
            ELSE IF data_not_in(b)
                THEN Exc(JaegerAPIError, Msg("Invalid response format from Jaeger API", ""))
            \* for service in services
            ELSE IF ~Sized(b.data) THEN TypeError("object is not iterable")
            ELSE Ret(Val("none", b.data.shape, b.data.n, FALSE))
    IN  Except("jaeger", "Failed to get services: ", try)

get_trace(args, o) ==
    LET response == make_jaeger_request(o)
        b == response.body
        trace_data == b.data
        try ==
            IF args.a = ""
                THEN Exc(JaegerAPIError, Msg("Trace ID is required", ""))
            ELSE IF response.k # "ret" THEN Propagate(response)
            ELSE IF b.top = "scalar" THEN TypeError("argument is not iterable")
            ELSE IF data_not_in(b)
                THEN Exc(JaegerAPIError, Msg("Invalid response format from Jaeger API", ""))
            \* if not trace_data
            ELSE IF trace_data.shape = "null" \/ (Sized(trace_data) /\ trace_data.n = 0)
                THEN Exc(JaegerAPIError, Msg("No trace found with ID: ", args.a))
            \* traces = trace_data[0] if isinstance(trace_data, list) else trace_data
            \* traces.get("processes", {})
            ELSE IF trace_data.shape = "num"
                    \/ (trace_data.shape = "list" /\ trace_data.elem = "bad")
                THEN AttributeError("object has no attribute 'get'")
            \* the modelled trace mappings carry no "spans" member
            ELSE Ret(Val("none", trace_data.shape, 0, FALSE))
    IN  Except("jaeger", "Failed to get trace: ", try)

analyze_service_dependencies(args, o) ==
    LET response == make_jaeger_request(o)
        b == response.body
        dependencies == b.data
        \* the modelled dependency mappings carry no "parent" / "child" member,
        \* so a service filter keeps none of them
        filtered == IF args.a # "" THEN 0 ELSE dependencies.n
        try ==
            IF response.k # "ret" THEN Propagate(response)
            ELSE IF b.top = "scalar" THEN TypeError("argument is not iterable")
            ELSE IF data_not_in(b)
                THEN Exc(JaegerAPIError, Msg("Invalid response format from Jaeger API", ""))
            \* for dep in dependencies / len(dependencies)
            ELSE IF ~Sized(dependencies) THEN TypeError("object is not iterable")
            \* dep.get("parent") on an item that is no mapping (a key of a
            \* mapping is a string)
            ELSE IF dependencies.n > 0
                    /\ (dependencies.shape = "map" \/ dependencies.elem = "bad")
                THEN AttributeError("object has no attribute 'get'")
            ELSE Ret(Val("none", dependencies.shape, filtered, FALSE))
    IN  Except("jaeger", "Failed to analyze service dependencies: ", try)

get_service_operations(args, o) ==
    LET response == make_jaeger_request(o)
        b == response.body
        try ==
            IF args.a = ""
                THEN Exc(JaegerAPIError, Msg("Service name is required", ""))
            ELSE IF response.k # "ret" THEN Propagate(response)
            ELSE IF b.top = "scalar" THEN TypeError("argument is not iterable")
            ELSE IF data_not_in(b)
                THEN Exc(JaegerAPIError, Msg("Invalid response format from Jaeger API", ""))
            \* for operation in operations
            ELSE IF ~Sized(b.data) THEN TypeError("object is not iterable")
            ELSE Ret(Val("none", b.data.shape, b.data.n, FALSE))
    IN  Except("jaeger", "Failed to get operations: ", try)

\* A tag value of a search: the type of the Python value and its str() text.
TagValue(type, text) == [type |-> type, text |-> text]

\* str(v) of a tag value.
str(v) == v.text

\* str.lower() of the texts str() gives for a bool.
lower(text) ==
    CASE text = "True" -> "true"
      [] text = "False" -> "false"
      [] OTHER -> text

\* Variant of stringified_tags without the isinstance(v, bool) branch.
stringified_tags_StrOnly(tags) == [k \in DOMAIN tags |-> str(tags[k])]

\* The tag loop of _build_trace_search_params: a new mapping with the text of
\* every value, a bool in lower case.
stringified_tags(tags) ==
    [k \in DOMAIN tags |->
        IF tags[k].type = "bool" THEN lower(str(tags[k])) ELSE str(tags[k])]

\* The "tags" parameter of a trace search: the JSON text of a mapping, or no
\* such parameter.
NoTags == [present |-> FALSE, json |-> << >>]
dumps(mapping) == [present |-> TRUE, json |-> mapping]

\* TraceSearchParams, by the fields the builder can fail on or reshape:
\* service, tags, start_time, end_time (a field that is None is "" / << >>).
TraceSearchParams(service, tags, start_time, end_time) ==
    [service |-> service, tags |-> tags, start_time |-> start_time, end_time |-> end_time]

\* _build_trace_search_params(params_obj): the parameter mapping (a key it
\* lacks is "" / NoInstant / NoTags), or the ValueError of
\* datetime.fromisoformat on a text that is no ISO-8601 timestamp; end_time is
\* parsed unless it is "now".  `params_obj` is the object given, as it is
\* when the builder has run: the builder writes to a mapping of its own.
_build_trace_search_params(params_obj) ==
    LET start_dt == fromisoformat(params_obj.start_time)
        end_dt == fromisoformat(params_obj.end_time)
        parse_end == params_obj.end_time # << >> /\ params_obj.end_time # << "now" >>
    IN  IF (params_obj.start_time # << >> /\ ~start_dt.ok) \/ (parse_end /\ ~end_dt.ok)
        THEN [k |-> "exc", exc |-> "ValueError", params_obj |-> params_obj,
              params |-> [service |-> "", start |-> NoInstant, end |-> NoInstant,
                          tags |-> NoTags]]
        ELSE [k |-> "ret", exc |-> "none", params_obj |-> params_obj,
              params |-> [service |-> params_obj.service,
                          start |-> IF params_obj.start_time # << >>
                                    THEN start_dt.at ELSE NoInstant,
                          end |-> IF parse_end THEN end_dt.at ELSE NoInstant,
                          tags |-> IF DOMAIN params_obj.tags # {}
                                   THEN dumps(stringified_tags(params_obj.tags))
                                   ELSE NoTags]]

\* The ISO-8601 text a time parameter value of a call stands for.
IsoTimeText(v) ==
    CASE v = "" -> << >>
      [] v = "x" -> << IsoText >>
      [] v = "?" -> << "?" >>

\* args: a = service, b = start_time, c = end_time
search_traces(args, o) ==
    LET built == _build_trace_search_params(
                    TraceSearchParams(args.a, << >>, IsoTimeText(args.b),
                                      IsoTimeText(args.c)))
        query_params == IF built.k = "exc" THEN ValueError("Invalid isoformat string")
                        ELSE Ret(NoVal)
        response == make_jaeger_request(o)
        b == response.body
        traces_data == b.data
        try ==
            IF query_params.k = "exc" THEN query_params
            ELSE IF response.k # "ret" THEN Propagate(response)
            ELSE IF b.top = "scalar" THEN TypeError("argument is not iterable")
            ELSE IF data_not_in(b)
                THEN Exc(JaegerAPIError, Msg("Invalid response format from Jaeger API", ""))
            \* [_process_trace_data(trace) for trace in traces_data]
            ELSE IF ~Sized(traces_data) THEN TypeError("object is not iterable")
            \* trace.get("spans", [])
            ELSE IF traces_data.n > 0
                    /\ (traces_data.shape = "map" \/ traces_data.elem = "bad")
                THEN AttributeError("object has no attribute 'get'")
            ELSE Ret(Val("none", traces_data.shape, traces_data.n, FALSE))
    IN  Except("jaeger", "Failed to search traces: ", try)

-----------------------------------------------------------------------------
(* The content of the Jaeger answers and results (jaeger.py)                *)

\* The orders list(a_set) can give the members of a set in: every sequence
\* that holds each member once.
list(S) ==
    {q \in [1..Cardinality(S) -> S] : \A i, j \in 1..Cardinality(S) : q[i] = q[j] => i = j}

\* One entry of result["dependencies"], for the backend edge dep
\* ("relationship" is the text of the two names and is left out).
DependencyEdge(dep) ==
    [parent_service |-> dep.parent, child_service |-> dep.child,
     call_count |-> dep.callCount]

\* Variant of filtered_deps that tests the parent only.
filtered_deps_ParentOnly(service_name, dependencies) ==
    LET touches(dep) == dep.parent = service_name
    IN  IF service_name # "" THEN SelectSeq(dependencies, touches) ELSE dependencies

\* `if service_name: filtered_deps = [...]` of analyze_service_dependencies.
filtered_deps(service_name, dependencies) ==
    LET touches(dep) == dep.parent = service_name \/ dep.child = service_name
    IN  IF service_name # "" THEN SelectSeq(dependencies, touches) ELSE dependencies

\* result["summary"]["unique_services"] as a set, before list() orders it.
unique_services(dependencies) ==
    {dependencies[i].parent : i \in 1..Len(dependencies)}
        \cup {dependencies[i].child : i \in 1..Len(dependencies)}

\* The `result` mapping analyze_service_dependencies builds from the
\* dependency list of a well-formed answer; `listing` is the order list()
\* gives the unique services in (lookback_hours and analysis_time are left
\* out).
analyze_service_dependencies_result(service_name, dependencies, listing) ==
    LET kept == filtered_deps(service_name, dependencies)
    IN  [service_name |-> service_name,
         dependencies |-> [i \in 1..Len(kept) |-> DependencyEdge(kept[i])],
         summary |-> [total_dependencies |-> Len(kept),
                      unique_services |-> listing]]

\* A span of a backend trace: references is the list of its references'
\* "refType"; service is span["process"]["serviceName"], "" where the span
\* has no such member.
Span(spanID, operationName, service, references) ==
    [spanID |-> spanID, operationName |-> operationName, service |-> service,
     references |-> references]

\* Variant of span_info that appends a span with CHILD_OF references only.
span_infos_ChildrenOnly(spans) ==
    LET child(span) == \E i \in 1..Len(span.references) : span.references[i] = "CHILD_OF"
        kept == SelectSeq(spans, child)
    IN  [i \in 1..Len(kept) |->
            [span_id |-> kept[i].spanID,
             operation_name |-> kept[i].operationName,
             service_name |-> kept[i].service,
             references |-> kept[i].references]]

\* `for span in traces.get("spans", []): result["spans"].append(span_info)` of
\* get_trace (trace_id, start_time, duration, tags and logs of a span are
\* copied the same way and left out).
span_infos(spans) ==
    [i \in 1..Len(spans) |->
        [span_id |-> spans[i].spanID,
         operation_name |-> spans[i].operationName,
         service_name |-> spans[i].service,
         references |-> spans[i].references]]

\* The `result` mapping get_trace builds from the first trace of a
\* well-formed answer: trace_id, spans, processes (retrieved_at is left out).
get_trace_result(trace_id, traces) ==
    [trace_id |-> trace_id,
     spans |-> span_infos(traces.spans),
     processes |-> traces.processes]

\* The root span a trace summary reports: None, or the mapping built from a
\* span (start_time, duration and tags are left out).
NoRootSpan == [none |-> TRUE, operation_name |-> "", service_name |-> ""]
RootSpan(span) ==
    [none |-> FALSE, operation_name |-> span.operationName, service_name |-> span.service]

\* Variant of _find_root_span that takes a span with any reference for a child.
RECURSIVE _find_root_span_AnyReference(_)
_find_root_span_AnyReference(spans) ==
    IF spans = << >> THEN NoRootSpan
    ELSE IF Head(spans).references = << >> THEN RootSpan(Head(spans))
    ELSE _find_root_span_AnyReference(Tail(spans))

\* _find_root_span(spans): the first span none of whose references is
\* CHILD_OF; None when there is no such span.
RECURSIVE _find_root_span(_)
_find_root_span(spans) ==
    LET references == Head(spans).references
    IN  IF spans = << >> THEN NoRootSpan
        ELSE IF ~\E i \in 1..Len(references) : references[i] = "CHILD_OF"
            THEN RootSpan(Head(spans))
        ELSE _find_root_span(Tail(spans))

\* _process_trace_data(trace) (duration and services are left out).
_process_trace_data(trace) ==
    [trace_id |-> trace.traceID,
     spans_count |-> Len(trace.spans),
     root_span |-> _find_root_span(trace.spans)]

\* The `result` mapping search_traces builds from the trace list of a
\* well-formed answer; "tags" of the search parameters is the mapping the
\* caller gave (search_time and the other search parameters are left out).
search_traces_result(params, traces_data) ==
    [search_parameters |-> [service |-> params.service, tags |-> params.tags],
     traces |-> [i \in 1..Len(traces_data) |-> _process_trace_data(traces_data[i])],
     summary |-> [total_found |-> Len(traces_data)]]

-----------------------------------------------------------------------------
(* Loki tools (loki.py)                                                    *)

\* The time text a parameter value of a call stands for.
TimeText(v) ==
    CASE v = "" -> << >>
      [] v = "x" -> << "1", "h" >>
      [] v = "?" -> << "?" >>
      [] v = "!" -> << "1", "7", "8", "0", "0", "0", "0", "0", "h" >>

\* The parameter values that stand for a time text.
TimeValues == {"", "x", "?", "!"}

\* Whether params = _build_query_params(query, start_time, end_time, ...)
\* raises, by the values of start_time and end_time: `datetime.now(UTC) -
\* delta` raises OverflowError on the duration "!" stands for, and
\* _format_time_for_loki does not catch it.
build_query_params_raises(start_time, end_time) == "!" \in {start_time, end_time}

\* The values of the time parameters raise as the texts they stand for do, at
\* every clock reading.
TimeValuesAgree ==
    \A b \in TimeValues, c \in TimeValues, t \in ClockReadings :
        build_query_params_raises(b, c)
            <=> _build_query_params("x", TimeText(b), TimeText(c), t).k = "exc"

\* args: a = query, b = start_time, c = end_time.
query_logs(args, o) ==
    LET response == make_loki_request(o)
        b == response.body
        data == b.data
        try ==
            IF args.a = ""
                THEN Exc(LokiAPIError, Msg("Query is required", ""))
            ELSE IF build_query_params_raises(args.b, args.c)
                THEN OverflowError("date value out of range")
            ELSE IF response.k # "ret" THEN Propagate(response)
            ELSE IF b.top = "scalar" THEN TypeError("argument is not iterable")
            ELSE IF data_not_in(b)
                THEN Exc(LokiAPIError, Msg("Invalid response format from Loki API", ""))
            \* data.get("resultType", "")
            ELSE IF data.shape # "map"
                THEN AttributeError("object has no attribute 'get'")
            \* _format_log_entries: for stream in results
            ELSE IF data.r = "null" THEN TypeError("object is not iterable")
            \* stream.get("stream", {})
            ELSE IF data.r = "list" /\ data.rn > 0 /\ data.elem = "bad"
                THEN AttributeError("object has no attribute 'get'")
            \* the modelled streams carry no "values" member: total_entries = 0
            ELSE Ret(Val("none", data.shape, 0, FALSE))
    IN  Except("loki", "Failed to query logs: ", try)

get_log_labels(args, o) ==
    LET response == make_loki_request(o)
        b == response.body
        labels == b.data
        try ==
            IF response.k # "ret" THEN Propagate(response)
            ELSE IF b.top = "scalar" THEN TypeError("argument is not iterable")
            ELSE IF data_not_in(b)
                THEN Exc(LokiAPIError, Msg("Invalid response format from Loki API", ""))
            \* len(labels)
            ELSE IF ~Sized(labels) THEN TypeError("object has no len()")
            ELSE Ret(Val("none", labels.shape, labels.n, FALSE))
    IN  Except("loki", "Failed to get labels: ", try)

loki_get_label_values(args, o) ==
    LET response == make_loki_request(o)
        b == response.body
        values == b.data
        try ==
            IF args.a = ""
                THEN Exc(LokiAPIError, Msg("Label name is required", ""))
            ELSE IF response.k # "ret" THEN Propagate(response)
            ELSE IF b.top = "scalar" THEN TypeError("argument is not iterable")
            ELSE IF data_not_in(b)
                THEN Exc(LokiAPIError, Msg("Invalid response format from Loki API", ""))
            \* len(values)
            ELSE IF ~Sized(values) THEN TypeError("object has no len()")
            ELSE Ret(Val("none", values.shape, values.n, FALSE))
    IN  Except("loki", "Failed to get label values: ", try)

\* Variant of search_logs_by_trace_id without the `if not label` test.
search_logs_by_trace_id_AnyLabel(args, o) ==
    LET search_start_time == IF args.c = "" THEN "x" ELSE args.c
        result == query_logs([a |-> "x", b |-> search_start_time, c |-> ""], o)
        try ==
            IF args.a = ""
                THEN Exc(LokiAPIError, Msg("Trace ID is required", ""))
            ELSE result
    IN  Except("loki", "Failed to search logs by trace ID: ", try)

\* Variant of search_logs_by_trace_id that catches the LokiAPIError of
\* query_logs and returns a result holding an error entry instead.
search_logs_by_trace_id_Partial(args, o) ==
    LET search_start_time == IF args.c = "" THEN "x" ELSE args.c
        result == query_logs([a |-> "x", b |-> search_start_time, c |-> ""], o)
        try ==
            IF args.a = ""
                THEN Exc(LokiAPIError, Msg("Trace ID is required", ""))
            ELSE IF args.b = ""
                THEN Exc(LokiAPIError, Msg("Label is required", ""))
            ELSE IF result.k = "exc" /\ result.exc = LokiAPIError
                THEN Ret(Val("error", "none", 0, FALSE))
            ELSE result
    IN  Except("loki", "Failed to search logs by trace ID: ", try)

\* args: a = trace_id, b = label, c = start_time.  The query text built from
\* them is never empty; start_time defaults to "1h".
search_logs_by_trace_id(args, o) ==
    LET search_start_time == IF args.c = "" THEN "x" ELSE args.c
        result == query_logs([a |-> "x", b |-> search_start_time, c |-> ""], o)
        try ==
            IF args.a = ""
                THEN Exc(LokiAPIError, Msg("Trace ID is required", ""))
            ELSE IF args.b = ""
                THEN Exc(LokiAPIError, Msg("Label is required", ""))
            \* result = await query_logs(...): its suspension, its exception or
            \* its result with the trace metadata added
            ELSE result
    IN  Except("loki", "Failed to search logs by trace ID: ", try)

-----------------------------------------------------------------------------
(* The content of a log query's answer and result (loki.py)                 *)

\* A nanosecond epoch (the "timestamp_ns" text of a value), as its whole
\* seconds and the nanoseconds of the second.
Nanos(sec, nano) == [sec |-> sec, nano |-> nano]

\* datetime.fromtimestamp(int(timestamp_ns) / 1_000_000_000, tz=UTC): the
\* instant to the microsecond, the nanoseconds rounded half to even.
fromtimestamp(timestamp_ns) ==
    LET whole == timestamp_ns.nano \div 1000
        rest == timestamp_ns.nano % 1000
        up == rest > 500 \/ (rest = 500 /\ whole % 2 = 1)
        micro == IF up THEN whole + 1 ELSE whole
    IN  IF micro = 1000000
        THEN [sec |-> timestamp_ns.sec + 1, micro |-> 0]
        ELSE [sec |-> timestamp_ns.sec, micro |-> micro]

\* One emitted log entry, for the value [timestamp_ns, log_line] of a stream
\* with labels stream_labels (a label the stream lacks reads "").
LogEntry(stream_labels, value) ==
    [timestamp |-> fromtimestamp(value.timestamp_ns),
     timestamp_ns |-> value.timestamp_ns,
     log_line |-> value.log_line,
     stream_labels |-> stream_labels,
     service_name |-> stream_labels.service_name,
     severity_text |-> stream_labels.severity_text]

\* The inner loop of _format_log_entries: `for value in values`.
RECURSIVE format_values(_, _)
format_values(stream_labels, values) ==
    IF values = << >> THEN << >>
    ELSE << LogEntry(stream_labels, Head(values)) >>
            \o format_values(stream_labels, Tail(values))

\* Variant of _format_log_entries that counts one entry per stream.
RECURSIVE _format_log_entries_PerStream(_)
_format_log_entries_PerStream(results) ==
    IF results = << >> THEN [formatted_logs |-> << >>, total_entries |-> 0]
    ELSE LET stream == Head(results)
             rest == _format_log_entries_PerStream(Tail(results))
         IN  [formatted_logs |-> format_values(stream.stream, stream.values)
                                    \o rest.formatted_logs,
              total_entries |-> 1 + rest.total_entries]

\* _format_log_entries(results): the entries of every stream in order, and
\* the sum of the streams' value counts.
RECURSIVE _format_log_entries(_)
_format_log_entries(results) ==
    IF results = << >> THEN [formatted_logs |-> << >>, total_entries |-> 0]
    ELSE LET stream == Head(results)
             rest == _format_log_entries(Tail(results))
         IN  [formatted_logs |-> format_values(stream.stream, stream.values)
                                    \o rest.formatted_logs,
              total_entries |-> Len(stream.values) + rest.total_entries]

\* The `result` mapping query_logs builds from the "result" list of a
\* well-formed answer (result_type, query_time, limit and direction are left
\* out).
query_logs_result(query, start_time, end_time, results) ==
    LET formatted == _format_log_entries(results)
    IN  [query |-> query,
         logs |-> formatted.formatted_logs,
         summary |-> [total_entries |-> formatted.total_entries,
                      streams_count |-> Len(results),
                      time_range |-> [start |-> start_time, end |-> end_time]]]

\* Variant of add_trace_metadata that also writes the trace id over "query".
add_trace_metadata_Overwriting(result, trace_id) ==
    LET written == [result EXCEPT !.query = trace_id]
                       @@ [trace_id |-> trace_id, search_type |-> "trace_correlation"]
    IN  [object |-> written, returned |-> written]

\* search_logs_by_trace_id, after query_logs has returned `result`:
\*     result["trace_id"] = trace_id
\*     result["search_type"] = "trace_correlation"
\* `object` is the mapping query_logs returned as it is afterwards, `returned`
\* what search_logs_by_trace_id returns: the same mapping.
add_trace_metadata(result, trace_id) ==
    LET written == result @@ [trace_id |-> trace_id, search_type |-> "trace_correlation"]
    IN  [object |-> written, returned |-> written]

-----------------------------------------------------------------------------
(* Prometheus single-query tools (prometheus.py)                           *)

\* Variant of error_msg that drops the backend's error text.
error_msg_Dropped(response) == "Unknown error"

\* response.get("error", "Unknown error")
error_msg(response) == IF response.error = "absent" THEN "Unknown error" ELSE response.error

\* The else block of query_prometheus and query_range_prometheus, which runs
\* after the try block has built `result` and outside its except clauses:
\*     result_type = response["data"].get("resultType", "unknown")
\*     result_count = len(response["data"].get("result", []))
log_result_count(response, result) ==
    IF response.data.shape # "map"
        THEN AttributeError("object has no attribute 'get'")
    ELSE IF response.data.r = "null" THEN TypeError("object has no len()")
    ELSE result

query_prometheus(args, o) ==
    LET response == make_prometheus_request(o)
        b == response.body
        try ==
            IF args.a = ""
                THEN Exc(PrometheusAPIError, Msg("Query is required", ""))
            ELSE IF response.k # "ret" THEN Propagate(response)
            \* response.get("status")
            ELSE IF b.top # "map" THEN AttributeError("object has no attribute 'get'")
            ELSE IF b.status # "success"
                THEN Exc(PrometheusAPIError, Msg("Prometheus query failed: ", error_msg(b)))
            \* response["data"]
            ELSE IF b.data.shape = "absent" THEN KeyError("data")
            ELSE Ret(Val(b.status, b.data.shape, b.data.rn, b.warnings))
        result == Except("prometheus", "Failed to execute query: ", try)
    IN  IF result.k = "ret" THEN log_result_count(b, result) ELSE result

\* args: a = query, b = start, c = end
query_range_prometheus(args, o) ==
    LET response == make_prometheus_request(o)
        b == response.body
        try ==
            IF args.a = ""
                THEN Exc(PrometheusAPIError, Msg("Query is required", ""))
            ELSE IF args.b = ""
                THEN Exc(PrometheusAPIError, Msg("Start time is required", ""))
            ELSE IF args.c = ""
                THEN Exc(PrometheusAPIError, Msg("End time is required", ""))
            ELSE IF response.k # "ret" THEN Propagate(response)
            ELSE IF b.top # "map" THEN AttributeError("object has no attribute 'get'")
            ELSE IF b.status # "success"
                THEN Exc(PrometheusAPIError,
                         Msg("Prometheus range query failed: ", error_msg(b)))
            ELSE IF b.data.shape = "absent" THEN KeyError("data")
            ELSE Ret(Val(b.status, b.data.shape, b.data.rn, b.warnings))
        result == Except("prometheus", "Failed to execute range query: ", try)
    IN  IF result.k = "ret" THEN log_result_count(b, result) ELSE result

get_metrics_metadata(args, o) ==
    LET response == make_prometheus_request(o)
        b == response.body
        metadata == b.data
        try ==
            IF response.k # "ret" THEN Propagate(response)
            ELSE IF b.top # "map" THEN AttributeError("object has no attribute 'get'")
            ELSE IF b.status # "success"
                THEN Exc(PrometheusAPIError, Msg("Failed to get metadata: ", error_msg(b)))
            ELSE IF metadata.shape = "absent" THEN KeyError("data")
            \* len(metadata)
            ELSE IF ~Sized(metadata) THEN TypeError("object has no len()")
            \* metadata.items()
            ELSE IF metadata.shape # "map"
                THEN AttributeError("object has no attribute 'items'")
            \* the modelled metric entries are no non-empty lists: none is copied
            ELSE Ret(Val("none", metadata.shape, metadata.n, FALSE))
    IN  Except("prometheus", "Failed to get metrics metadata: ", try)

get_label_names(args, o) ==
    LET response == make_prometheus_request(o)
        b == response.body
        try ==
            IF response.k # "ret" THEN Propagate(response)
            ELSE IF b.top # "map" THEN AttributeError("object has no attribute 'get'")
            ELSE IF b.status # "success"
                THEN Exc(PrometheusAPIError, Msg("Failed to get label names: ", error_msg(b)))
            ELSE IF b.data.shape = "absent" THEN KeyError("data")
            \* len(response["data"])
            ELSE IF ~Sized(b.data) THEN TypeError("object has no len()")
            ELSE Ret(Val("none", b.data.shape, b.data.n, FALSE))
    IN  Except("prometheus", "Failed to get label names: ", try)

prometheus_get_label_values(args, o) ==
    LET response == make_prometheus_request(o)
        b == response.body
        try ==
            IF args.a = ""
                THEN Exc(PrometheusAPIError, Msg("Label name is required", ""))
            ELSE IF response.k # "ret" THEN Propagate(response)
            ELSE IF b.top # "map" THEN AttributeError("object has no attribute 'get'")
            ELSE IF b.status # "success"
                THEN Exc(PrometheusAPIError, Msg("Failed to get label values: ", error_msg(b)))
            ELSE IF b.data.shape = "absent" THEN KeyError("data")
            \* len(response["data"])
            ELSE IF ~Sized(b.data) THEN TypeError("object has no len()")
            ELSE Ret(Val("none", b.data.shape, b.data.n, FALSE))
    IN  Except("prometheus", "Failed to get label values: ", try)

\* args: a = match: "" the empty list, "x" one selector, "xx" several
get_series(args, o) ==
    LET response == make_prometheus_request(o)
        b == response.body
        try ==
            IF args.a = ""
                THEN Exc(PrometheusAPIError,
                         Msg("At least one match selector is required", ""))
            \* params["match[]"] + [selector], for the second selector: str + list
            ELSE IF args.a = "xx" THEN TypeError("can only concatenate str to str")
            ELSE IF response.k # "ret" THEN Propagate(response)
            ELSE IF b.top # "map" THEN AttributeError("object has no attribute 'get'")
            ELSE IF b.status # "success"
                THEN Exc(PrometheusAPIError, Msg("Failed to find series: ", error_msg(b)))
            ELSE IF b.data.shape = "absent" THEN KeyError("data")
            \* len(response["data"])
            ELSE IF ~Sized(b.data) THEN TypeError("object has no len()")
            ELSE Ret(Val("none", b.data.shape, b.data.n, FALSE))
    IN  Except("prometheus", "Failed to find series: ", try)

-----------------------------------------------------------------------------
(* Prometheus composite tools (prometheus.py)                              *)

\* One entry of result["metrics"] / result["alerts"], by the keys it has:
\*   error   an "error" key is present
\*   data    a "data" key is present and not None
\*   status  the "status" key ("none": the entry has no such key)
\*   firing  the "firing" key (FALSE also when the entry has no such key)
Entry(name, error, data, status, firing) ==
    [name |-> name, error |-> error, data |-> data, status |-> status, firing |-> firing]

\* The parameters of the query_prometheus call of a sub-query: the query text
\* is a non-empty f-string, time is not given.
SubQueryArgs == [a |-> "x", b |-> "x", c |-> "x"]

_execute_single_query(metric_name, o) ==
    LET query_result == query_prometheus(SubQueryArgs, o)
    IN  IF query_result.k = "ret"
            THEN Ret(Entry(metric_name, FALSE, TRUE, query_result.val.status, FALSE))
        ELSE IF query_result.k = "exc" /\ query_result.exc = PrometheusAPIError
            THEN Ret(Entry(metric_name, TRUE, FALSE, "error", FALSE))
        \* suspended at the GET, or an exception that is no PrometheusAPIError
        ELSE query_result

_execute_alert_query(alert_name, o) ==
    LET query_result == query_prometheus(SubQueryArgs, o)
        \* len(query_result["data"].get("result", [])) > 0
        is_firing == query_result.val.n > 0
    IN  IF query_result.k = "ret"
            THEN Ret(Entry(alert_name, FALSE, is_firing, "none", is_firing))
        ELSE IF query_result.k = "exc" /\ query_result.exc = PrometheusAPIError
            THEN Ret(Entry(alert_name, TRUE, FALSE, "none", FALSE))
        ELSE query_result

\* The body of the loop of analyze_http_metrics for the k-th query, inside the
\* tool's try block.
analyze_http_metrics(k, o) ==
    Except("prometheus", "Failed to analyze HTTP metrics: ",
           _execute_single_query(queries[k], o))

\* The body of the loop of check_alerting_thresholds for the k-th alert.
check_alerting_thresholds(k, o) ==
    Except("prometheus", "Failed to check alerting thresholds: ",
           _execute_alert_query(alert_queries[k].name, o))

\* result["summary"] of check_alerting_thresholds before its loop.
InitialSummary ==
    [total_checks |-> Len(alert_queries), firing_alerts |-> 0,
     critical_alerts |-> 0, warning_alerts |-> 0]

\* Variant of count_alert that counts the firing alerts of severity
\* "critical" only by severity.
count_alert_CriticalOnly(counts, k, alert_result) ==
    IF alert_result.firing
    THEN [counts EXCEPT
            !.firing_alerts = @ + 1,
            !.critical_alerts = IF alert_queries[k].severity = "critical" THEN @ + 1 ELSE @]
    ELSE counts

\* The counting of check_alerting_thresholds after the k-th alert's entry.
count_alert(counts, k, alert_result) ==
    IF alert_result.firing
    THEN [counts EXCEPT
            !.firing_alerts = @ + 1,
            !.critical_alerts = IF alert_queries[k].severity = "critical" THEN @ + 1 ELSE @,
            !.warning_alerts = IF alert_queries[k].severity = "warning" THEN @ + 1 ELSE @]
    ELSE counts

\* Variant of SubQueriesIssued that sends every sub-query at once (a gather
\* over the queries) and awaits them together.
SubQueriesIssued_Gathered(tool, completed) ==
    IF completed = 0 THEN 1..SubQueryCount(tool) ELSE {}

\* `for ... in queries.items(): ... = await _execute_...(...)`: the sub-queries
\* whose GET is sent once `completed` of them have completed.  Each is awaited
\* before the loop goes on, so it is the next one alone.
SubQueriesIssued(tool, completed) ==
    IF completed < SubQueryCount(tool) THEN {completed + 1} ELSE {}

-----------------------------------------------------------------------------
(* The content of the metadata answer and result (prometheus.py)           *)

\* One entry of the list the metadata endpoint gives for a metric name: a
\* mapping with some of the keys type, help and unit ("absent": no such key),
\* or a value that is no mapping.
MetricInfo(mapping, type, help, unit) ==
    [mapping |-> mapping, type |-> type, help |-> help, unit |-> unit]

\* What the metadata endpoint gives for a metric name: a list of entries, or
\* a value that is no list (null).
InfoList(items) == [list |-> TRUE, items |-> items]
NotAList == [list |-> FALSE, items |-> << >>]

\* info.get(key, default)
get(value, default) == IF value = "absent" THEN default ELSE value

\* result["metrics"] after the loop over metadata.items(): an entry, built
\* from the first item of its list, for every metric name whose value is a
\* non-empty list.
metrics_of(metadata) ==
    [metric_name \in {m \in DOMAIN metadata :
                        metadata[m].list /\ metadata[m].items # << >>} |->
        LET info == metadata[metric_name].items[1]
        IN  [type |-> get(info.type, "unknown"),
             help |-> get(info.help, ""),
             unit |-> get(info.unit, "")]]

\* The result get_metrics_metadata builds of the mapping `metadata`
\* (retrieved_at is left out), or the AttributeError of info.get on a first
\* item that is no mapping.
get_metrics_metadata_result(metadata) ==
    IF \E m \in DOMAIN metadata :
          /\ metadata[m].list
          /\ metadata[m].items # << >>
          /\ ~metadata[m].items[1].mapping
    THEN AttributeError("object has no attribute 'get'")
    ELSE Ret([total_metrics |-> Cardinality(DOMAIN metadata),
              metrics |-> metrics_of(metadata)])

-----------------------------------------------------------------------------
(* The invocation as a state machine                                       *)

VARIABLES
    tool,       \* the tool being invoked, "none" when no call is under way
    args,       \* its parameters
    pc,         \* "idle", "await" (suspended at a GET) or "done"
    resp,       \* the outcome of the GET that completed last in this call
    result,     \* what the call returned or raised, NoRes until it ends
    requests,   \* the number of GETs sent during this call
    inflight,   \* the sub-queries (1 for a single-query tool) whose GET is awaited
    entries,    \* result["metrics"] / result["alerts"] of a composite tool
    summary     \* result["summary"] of check_alerting_thresholds

\* A call followed with the content of its parameters, answer and result
\* (the log and trace tools):
VARIABLES
    now,        \* the reading of the clock (datetime.now(UTC)) the call takes
    call,       \* the tool called and its parameters, NoCall when none is
    stage,      \* "idle", "await" (suspended at the GET) or "done"
    sent,       \* the parameter mapping of the GET the call sent
    reply,      \* the outcome of that GET and the content of the answer
    out,        \* what the call returned or raised
    handed,     \* the mapping query_logs returned, as it was at its return
    object,     \* that same mapping, as it is now
    given       \* the parameter object of the call, as it is now

\* The server process of each adapter module, from its start to its end:
VARIABLES
    process     \* per module: the phase of the process, its HTTP client, its exit hook

\* The calls in progress at the same time in one adapter process:
VARIABLES
    tasks,      \* per task: its position, the tool and parameters it was called
                \* with, the outcomes its GETs completed with, whether it ran on
                \* beside a suspended call, what it returned
    frames      \* the local variables of the tool bodies, by the place they are kept in

\* One Assistant object (chatbot/app/agent.py) and the calls of its methods:
VARIABLES
    assistant,  \* the attributes of the object
    done        \* the method called last: the attributes before the call, the
                \* calls it made of the MCP client and agent libraries, its outcome

\* One browser session of the application (chatbot/app/main.py, ui.py):
VARIABLES
    session,    \* st.session_state: its keys and their values
    script      \* the script run that ended last: what started it, the session
                \* state before it, what it did, whether it drew the widgets

invocation == << tool, args, pc, resp, result, requests, inflight, entries, summary >>

content == << now, call, stage, sent, reply, out, handed, object, given >>

lifecycle == << process >>

concurrent == << tasks, frames >>

methods == << assistant, done >>

application == << session, script >>

vars == << invocation, content, lifecycle, concurrent, methods, application >>

\* No call is followed with its content.
NoCall == [tool |-> "none"]
NoSent == [sent |-> FALSE]
Reply(o, items) == [outcome |-> o, content |-> items]
NoReply == Reply(NoOutcome, << >>)
NoMapping == [none |-> TRUE]

ContentInit ==
    /\ now = NoInstant
    /\ call = NoCall
    /\ stage = "idle"
    /\ sent = NoSent
    /\ reply = NoReply
    /\ out = NoRes
    /\ handed = NoMapping
    /\ object = NoMapping
    /\ given = NoMapping

\* The adapter modules, each run as a server process of its own.
Modules == {"jaeger", "loki", "prometheus"}

\* A process that has not been started: the module is not imported, there is
\* no client and no exit hook.
\*   phase       "off", "serving" (inside mcp.run()), "exiting" (mcp.run() has
\*               returned or raised, the interpreter is shutting down),
\*               "exited" (the exit hooks have run), "killed" (ended by a
\*               signal or os._exit, no exit hook run)
\*   clients     the httpx.AsyncClient objects the module has created
\*   client      "none", "open" or "closed": the state of http_client
\*   closes      the aclose() calls carried out to completion
\*   coroutines  the aclose() coroutine objects created and never awaited
\*   hooks       the functions registered with atexit and not yet run
\*   issued      the GETs the gateway has issued
\*   through     those of them sent through http_client
NotStarted ==
    [phase |-> "off", clients |-> 0, client |-> "none", closes |-> 0,
     coroutines |-> 0, hooks |-> 0, issued |-> 0, through |-> 0]

LifecycleInit == process = [m \in Modules |-> NotStarted]

\* The tasks the event loop of an adapter runs tool calls in.
Tasks == {"first", "second"}

\* A task that runs no call, and the local variables of a tool body when it
\* is entered: its parameters, and the "metrics" / "alerts" and "summary" of
\* the result mapping a composite tool builds.
NoTask ==
    [pc |-> "idle", tool |-> "none", args |-> NoArgs, got |-> << >>, beside |-> FALSE,
     returned |-> NoRes, metrics |-> << >>, counts |-> InitialSummary]

Locals(a) == [args |-> a, entries |-> << >>, summary |-> InitialSummary]

ConcurrentInit ==
    /\ tasks = [i \in Tasks |-> NoTask]
    /\ frames = [i \in Tasks |-> Locals(NoArgs)]

\* The value of an attribute of the Assistant: the attribute has never been
\* assigned ("unset": reading it raises AttributeError), it is None, or it is
\* an object made of `of` (the client of a configuration, the agent of a
\* prompt, a text).
Unset == [kind |-> "unset", of |-> ""]
None == [kind |-> "none", of |-> ""]
Object(of) == [kind |-> "object", of |-> of]

\* Assistant(): __init__ annotates agent and mcp_client without assigning
\* them (the MemorySaver, never changed, is left out).
Assistant ==
    [agent |-> Unset, mcp_client |-> Unset, system_prompt |-> None, _initialized |-> FALSE]

\* No method has been called yet.
\*   op      the method: "initialize", "invoke", "cleanup", "cleanup_mcp_client"
\*   with    the arguments of initialize: configuration and system prompt
\*   env     what the libraries did during the call
\*   before  the attributes before the call
\*   calls   the library calls made: "MultiServerMCPClient", "get_tools",
\*           "create_react_agent", "ainvoke", "close"
\*   res     what the method returned or raised
NoMethod ==
    [op |-> "none", with |-> << "", "" >>, env |-> [none |-> TRUE], before |-> Assistant,
     calls |-> {}, res |-> NoRes]

MethodsInit ==
    /\ assistant = Assistant
    /\ done = NoMethod

\* st.session_state of a new session: no key is set.  The value kept for an
\* absent key is the one below.
NewSession ==
    [keys |-> {}, messages |-> << >>, thread_id |-> 0, assistant |-> Assistant]

\* No script run has ended yet.
\*   op        what started the run: "load" (no widget input), "prompt" (the
\*             chat input was submitted) or "button" (the reset button was
\*             pressed; the rerun that follows is part of it)
\*   before    the session state before the run
\*   calls     what the run called: "Assistant()", "initialize", "invoke",
\*             "cleanup"
\*   res       what invoke returned or raised in the run
\*   stopped   the run ended at st.stop()
\*   widgets   the run drew the reset button and the chat input
\*   uuids     the thread ids generated so far, in all runs
\*   cached    load_system_prompt has returned: st.cache_data keeps its result
\*   escaped   an exception left the chat handler
NoScript ==
    [op |-> "none", before |-> NewSession, calls |-> {}, res |-> NoRes, stopped |-> FALSE,
     widgets |-> FALSE, uuids |-> 0, cached |-> FALSE, escaped |-> FALSE]

ApplicationInit ==
    /\ session = NewSession
    /\ script = NoScript

\* The body of a single-query tool.
Run(t, a, o) ==
    CASE t = "jaeger.get_services" -> get_services(a, o)
      [] t = "jaeger.get_trace" -> get_trace(a, o)
      [] t = "jaeger.analyze_service_dependencies" -> analyze_service_dependencies(a, o)
      [] t = "jaeger.get_service_operations" -> get_service_operations(a, o)
      [] t = "jaeger.search_traces" -> search_traces(a, o)
      [] t = "loki.query_logs" -> query_logs(a, o)
      [] t = "loki.get_log_labels" -> get_log_labels(a, o)
      [] t = "loki.get_label_values" -> loki_get_label_values(a, o)
      [] t = "loki.search_logs_by_trace_id" -> search_logs_by_trace_id(a, o)
      [] t = "prometheus.query_prometheus" -> query_prometheus(a, o)
      [] t = "prometheus.query_range_prometheus" -> query_range_prometheus(a, o)
      [] t = "prometheus.get_metrics_metadata" -> get_metrics_metadata(a, o)
      [] t = "prometheus.get_label_names" -> get_label_names(a, o)
      [] t = "prometheus.get_label_values" -> prometheus_get_label_values(a, o)
      [] t = "prometheus.get_series" -> get_series(a, o)

\* The loop body of a composite tool for its k-th sub-query.
RunSubQuery(t, k, o) ==
    IF t = "prometheus.analyze_http_metrics" THEN analyze_http_metrics(k, o)
    ELSE check_alerting_thresholds(k, o)

Init ==
    /\ tool = "none"
    /\ args = NoArgs
    /\ pc = "idle"
    /\ resp = NoOutcome
    /\ result = NoRes
    /\ requests = 0
    /\ inflight = {}
    /\ entries = << >>
    /\ summary = InitialSummary
    /\ ContentInit
    /\ LifecycleInit
    /\ ConcurrentInit
    /\ MethodsInit
    /\ ApplicationInit

\* A single-query tool is called: it runs up to its GET, or raises before it.
InvokeSingle(t, a) ==
    /\ pc = "idle"
    /\ t \in Tools \ CompositeTools
    /\ a \in ArgsOf(t)
    /\ tool' = t
    /\ args' = a
    /\ LET r == Run(t, a, NoOutcome)
       IN  IF r.k = "await"
           THEN /\ pc' = "await"
                /\ result' = NoRes
                /\ requests' = 1
                /\ inflight' = {1}
           ELSE /\ pc' = "done"
                /\ result' = r
                /\ requests' = 0
                /\ inflight' = {}
    /\ UNCHANGED << resp, entries, summary >>
    /\ UNCHANGED << content, lifecycle, concurrent, methods, application >>

\* The GET of a single-query tool completes with outcome o; the tool runs on
\* to its return or raise (or to a further GET, which the code never sends).
RespondSingle(o) ==
    /\ pc = "await"
    /\ tool \in Tools \ CompositeTools
    /\ resp' = o
    /\ LET r == Run(tool, args, o)
       IN  IF r.k = "await"
           THEN /\ requests' = requests + 1
                /\ UNCHANGED << pc, result, inflight >>
           ELSE /\ pc' = "done"
                /\ result' = r
                /\ inflight' = {}
                /\ UNCHANGED requests
    /\ UNCHANGED << tool, args, entries, summary >>
    /\ UNCHANGED << content, lifecycle, concurrent, methods, application >>

\* A composite tool is called: it builds its queries and result (nothing of
\* which can fail) and enters its loop.
InvokeComposite(t, a) ==
    /\ pc = "idle"
    /\ t \in CompositeTools
    /\ a \in ArgsOf(t)
    /\ tool' = t
    /\ args' = a
    /\ pc' = "await"
    /\ result' = NoRes
    /\ entries' = << >>
    /\ summary' = InitialSummary
    /\ inflight' = SubQueriesIssued(t, 0)
    /\ requests' = Cardinality(SubQueriesIssued(t, 0))
    /\ UNCHANGED resp
    /\ UNCHANGED << content, lifecycle, concurrent, methods, application >>

\* The GET of sub-query k of a composite tool completes with outcome o: the
\* entry is stored and the loop goes on, or the loop is left by an exception.
RespondComposite(k, o) ==
    /\ pc = "await"
    /\ tool \in CompositeTools
    /\ k \in inflight
    /\ resp' = o
    /\ LET r == RunSubQuery(tool, k, o)
           stored == Append(entries, r.val)
           issued == SubQueriesIssued(tool, Len(stored))
           waiting == (inflight \ {k}) \cup issued
       IN  CASE r.k = "exc" ->
                    /\ pc' = "done"
                    /\ result' = r
                    /\ inflight' = {}
                    /\ UNCHANGED << requests, entries, summary >>
             [] r.k = "await" ->
                    /\ requests' = requests + 1
                    /\ UNCHANGED << pc, result, inflight, entries, summary >>
             [] r.k = "ret" ->
                    /\ entries' = stored
                    /\ summary' = IF tool = "prometheus.check_alerting_thresholds"
                                  THEN count_alert(summary, k, r.val)
                                  ELSE summary
                    /\ inflight' = waiting
                    /\ requests' = requests + Cardinality(issued)
                    /\ IF waiting = {}
                       THEN /\ pc' = "done"
                            /\ result' = Ret(Val("none", "map", Len(stored), FALSE))
                       ELSE UNCHANGED << pc, result >>
    /\ UNCHANGED << tool, args >>
    /\ UNCHANGED << content, lifecycle, concurrent, methods, application >>

\* The caller has the outcome; the adapter is ready for the next call.
Finish ==
    /\ pc = "done"
    /\ tool' = "none"
    /\ args' = NoArgs
    /\ pc' = "idle"
    /\ resp' = NoOutcome
    /\ result' = NoRes
    /\ requests' = 0
    /\ inflight' = {}
    /\ entries' = << >>
    /\ summary' = InitialSummary
    /\ UNCHANGED << content, lifecycle, concurrent, methods, application >>

Next ==
    \/ \E t \in Tools, a \in UNION {ArgsOf(u) : u \in Tools} : InvokeSingle(t, a)
    \/ \E o \in Outcomes : RespondSingle(o)
    \/ \E t \in CompositeTools, a \in UNION {ArgsOf(u) : u \in Tools} : InvokeComposite(t, a)
    \/ \E k \in inflight, o \in SubQueryOutcomes : RespondComposite(k, o)
    \/ Finish

Spec == Init /\ [][Next]_vars

-----------------------------------------------------------------------------
(* Calls followed with their content: what the log and trace tools send,    *)
(* and what they make of a well-formed answer                               *)

\* Largest length of a time text drawn character by character.
MaxText == 3

\* Largest number of spans of a trace.
MaxSpans == 3

\* The sequences over S of length n at most.
Seqs(S, n) == UNION {[1..k -> S] : k \in 0..n}

\* The characters of the time texts: digits, the units, a sign, and
\* characters that belong to no number or unit.
TimeChars == {"1", "5", "s", "m", "h", "x", "T", "-"}

\* A duration of 17,800,000 hours: some 2031 years.
LongAgo == << "1", "7", "8", "0", "0", "0", "0", "0", "h" >>

TimeTexts == Seqs(TimeChars, MaxText) \cup {<< IsoText >>, LongAgo}

\* The time parameters a log query is called with: one of them any text, or
\* both of them texts of a few kinds.
FewTexts == {<< >>, << "5", "m" >>, << "x" >>, LongAgo}

TimePairs ==
    (TimeTexts \X {<< >>}) \cup ({<< >>} \X TimeTexts) \cup (FewTexts \X FewTexts)

\* The "result" list of a well-formed Loki answer: streams with their labels
\* and values.
NanosValues == {Nanos(1700000000, 123456789), Nanos(1700000000, 999999999)}

LogValues == [timestamp_ns : NanosValues, log_line : {"GET /users 500"}]

Labels == {[service_name |-> "user-service", severity_text |-> "ERROR"],
           [service_name |-> "", severity_text |-> ""]}

Streams == [stream : Labels, values : Seqs(LogValues, MaxItems)]

LokiResults == Seqs(Streams, MaxItems)

\* The answers a call with time parameters is followed with.
BriefLokiResults == {r \in Seqs(Streams, 1) : \A i \in 1..Len(r) : Len(r[i].values) = 1}

\* The outcomes of the GET of a call followed with its content: a transport
\* fault, an error status, or a well-formed answer, whose content is drawn
\* apart.
WellFormed == Outcome("ok", 200, TRUE, Body("map", "absent", "absent", FALSE, NoData))

ContentOutcomes ==
    {Outcome("fault", 0, FALSE, NoBody), Outcome("ok", 500, TRUE, NoBody), WellFormed}

\* The LogQL text search_logs_by_trace_id builds from its label and trace id,
\* never empty.
TraceQuery == "{service_name=\"x\"} | json | trace_id=\"abc\""

\* query_logs up to its GET: the validation error, the fault of building the
\* parameters, or the parameter mapping sent.
query_logs_request(query, start_time, end_time, utcnow) ==
    LET params == _build_query_params(query, start_time, end_time, utcnow)
    IN  IF query = ""
            THEN [res |-> Exc(LokiAPIError, Msg("Query is required", "")), sent |-> NoSent]
        ELSE IF params.k = "exc"
            THEN [res |-> Except("loki", "Failed to query logs: ",
                                 OverflowError("date value out of range")),
                  sent |-> NoSent]
        ELSE [res |-> Await,
              sent |-> [sent |-> TRUE, query |-> params.query,
                        start |-> params.start, end |-> params.end]]

\* query_logs from the completion of its GET, for the "result" list `results`
\* of a well-formed answer.
query_logs_answer(query, start_time, end_time, o, results) ==
    LET response == make_loki_request(o)
    IN  IF response.k # "ret" THEN Propagate(response)
        ELSE Except("loki", "Failed to query logs: ",
                    Ret(query_logs_result(query, start_time, end_time, results)))

\* The call ends before any GET, or is suspended at its GET.
Requested(c, t, request, param) ==
    /\ stage = "idle"
    /\ now' = t
    /\ call' = c
    /\ given' = param
    /\ sent' = request.sent
    /\ IF request.res.k = "await"
       THEN stage' = "await" /\ out' = NoRes
       ELSE stage' = "done" /\ out' = request.res
    /\ UNCHANGED << reply, handed, object >>
    /\ UNCHANGED << invocation, lifecycle, concurrent, methods, application >>

\* query_logs(query, start_time, end_time) is called at the clock reading t.
CallQueryLogs(query, start_time, end_time, t) ==
    Requested([tool |-> "loki.query_logs", query |-> query,
               start_time |-> start_time, end_time |-> end_time],
              t, query_logs_request(query, start_time, end_time, t), NoMapping)

\* search_logs_by_trace_id(trace_id, label, start_time) is called at the
\* clock reading t: it validates and calls query_logs, start_time "1h" when
\* none is given.
CallSearchLogsByTraceId(trace_id, label, start_time, t) ==
    LET search_start_time == IF start_time = << >> THEN << "1", "h" >> ELSE start_time
        request ==
            IF trace_id = ""
                THEN [res |-> Exc(LokiAPIError, Msg("Trace ID is required", "")),
                      sent |-> NoSent]
            ELSE IF label = ""
                THEN [res |-> Exc(LokiAPIError, Msg("Label is required", "")),
                      sent |-> NoSent]
            ELSE query_logs_request(TraceQuery, search_start_time, << >>, t)
    IN  Requested([tool |-> "loki.search_logs_by_trace_id", trace_id |-> trace_id,
                   label |-> label, query |-> TraceQuery,
                   start_time |-> search_start_time, end_time |-> << >>],
                  t, [request EXCEPT !.res = Except("loki",
                                        "Failed to search logs by trace ID: ", @)],
                  NoMapping)

\* The GET of a log tool completes: query_logs builds and returns its result
\* mapping; search_logs_by_trace_id then writes the trace metadata into it and
\* returns it.
AnswerLogs(o, results) ==
    /\ stage = "await"
    /\ call.tool \in {"loki.query_logs", "loki.search_logs_by_trace_id"}
    /\ reply' = Reply(o, results)
    /\ stage' = "done"
    /\ LET logs == query_logs_answer(call.query, call.start_time, call.end_time,
                                     o, results)
           written == add_trace_metadata(logs.val, call.trace_id)
       IN  IF logs.k # "ret"
           THEN /\ out' = logs
                /\ UNCHANGED << handed, object >>
           ELSE /\ handed' = logs.val
                /\ IF call.tool = "loki.query_logs"
                   THEN out' = logs /\ object' = logs.val
                   ELSE out' = Ret(written.returned) /\ object' = written.object
    /\ UNCHANGED << now, call, sent, given >>
    /\ UNCHANGED << invocation, lifecycle, concurrent, methods, application >>

\* The spans and traces of a well-formed Jaeger answer.  A span is of one of
\* two operations, the second of a process that has no "serviceName".
RefLists == {<< >>, << "CHILD_OF" >>, << "FOLLOWS_FROM" >>, << "FOLLOWS_FROM", "CHILD_OF" >>}

SpanKinds ==
    {[operationName |-> "GET /users", service |-> "user-service", references |-> r] :
        r \in RefLists}
    \cup {[operationName |-> "SELECT", service |-> "", references |-> r] : r \in RefLists}

\* The span lists of up to n spans; the spanID of a span is its position.
SpanLists(n) ==
    {[i \in 1..Len(q) |->
        Span(i, q[i].operationName, q[i].service, q[i].references)] :
            q \in Seqs(SpanKinds, n)}

Traces(n) == [traceID : {"abc123"}, spans : SpanLists(n), processes : {"p1"}]

\* The tag mappings of a trace search.
TagNames == {"error", "http.method"}

TagValues == {TagValue("bool", "True"), TagValue("bool", "False"),
              TagValue("str", "GET"), TagValue("str", "True"), TagValue("int", "1")}

TagMappings == UNION {[S -> TagValues] : S \in SUBSET TagNames}

NoTagMapping == [k \in {} |-> TagValue("str", "")]

SearchParams ==
    {TraceSearchParams(service, tags, start_time, end_time) :
        service \in {"", "user-service"}, tags \in TagMappings,
        start_time \in {<< >>, << IsoText >>, << "x" >>},
        end_time \in {<< >>, << "now" >>, << IsoText >>}}

\* The dependency edges of a well-formed Jaeger answer.
Services == {"frontend", "user-service", "db"}

Edges == [parent : Services, child : Services, callCount : {1}]

Dependencies == Seqs(Edges, MaxItems)

\* get_trace(trace_id) is called.
CallGetTrace(trace_id, t) ==
    Requested([tool |-> "jaeger.get_trace", trace_id |-> trace_id], t,
              IF trace_id = ""
              THEN [res |-> Exc(JaegerAPIError, Msg("Trace ID is required", "")),
                    sent |-> NoSent]
              ELSE [res |-> Await, sent |-> [sent |-> TRUE, trace_id |-> trace_id]],
              NoMapping)

\* The GET of get_trace completes with the trace list trace_data.
AnswerGetTrace(o, trace_data) ==
    /\ stage = "await"
    /\ call.tool = "jaeger.get_trace"
    /\ reply' = Reply(o, trace_data)
    /\ stage' = "done"
    /\ LET response == make_jaeger_request(o)
       IN  out' = IF response.k # "ret" THEN Propagate(response)
                  \* if not trace_data
                  ELSE IF trace_data = << >>
                      THEN Exc(JaegerAPIError, Msg("No trace found with ID: ", call.trace_id))
                  ELSE Ret(get_trace_result(call.trace_id, trace_data[1]))
    /\ UNCHANGED << now, call, sent, handed, object, given >>
    /\ UNCHANGED << invocation, lifecycle, concurrent, methods, application >>

\* search_traces(params) is called.
CallSearchTraces(params, t) ==
    LET built == _build_trace_search_params(params)
    IN  Requested([tool |-> "jaeger.search_traces", params |-> params], t,
                  IF built.k = "exc"
                  THEN [res |-> Except("jaeger", "Failed to search traces: ",
                                       ValueError("Invalid isoformat string")),
                        sent |-> NoSent]
                  ELSE [res |-> Await, sent |-> [sent |-> TRUE] @@ built.params],
                  built.params_obj)

\* The GET of search_traces completes with the trace list traces_data.
AnswerSearchTraces(o, traces_data) ==
    /\ stage = "await"
    /\ call.tool = "jaeger.search_traces"
    /\ reply' = Reply(o, traces_data)
    /\ stage' = "done"
    /\ LET response == make_jaeger_request(o)
       IN  out' = IF response.k # "ret" THEN Propagate(response)
                  ELSE Ret(search_traces_result(call.params, traces_data))
    /\ UNCHANGED << now, call, sent, handed, object, given >>
    /\ UNCHANGED << invocation, lifecycle, concurrent, methods, application >>

\* analyze_service_dependencies(service_name) is called.
CallAnalyzeServiceDependencies(service_name, t) ==
    Requested([tool |-> "jaeger.analyze_service_dependencies",
               service_name |-> service_name], t,
              [res |-> Await, sent |-> [sent |-> TRUE]], NoMapping)

\* The GET of analyze_service_dependencies completes with the dependency list;
\* listing is the order list() gives the set of unique services in.
AnswerAnalyzeServiceDependencies(o, dependencies, listing) ==
    /\ stage = "await"
    /\ call.tool = "jaeger.analyze_service_dependencies"
    /\ reply' = Reply(o, dependencies)
    /\ stage' = "done"
    /\ LET response == make_jaeger_request(o)
       IN  out' = IF response.k # "ret" THEN Propagate(response)
                  ELSE Ret(analyze_service_dependencies_result(
                              call.service_name, dependencies, listing))
    /\ UNCHANGED << now, call, sent, handed, object, given >>
    /\ UNCHANGED << invocation, lifecycle, concurrent, methods, application >>

\* The metric names and the values the metadata answers are drawn from.
MetricNames == {"up", "go_goroutines", "http_requests_total"}

MetricInfos ==
    {MetricInfo(TRUE, "gauge", "absent", "absent"),
     MetricInfo(TRUE, "absent", "Total requests", "requests"),
     MetricInfo(FALSE, "absent", "absent", "absent")}

MetricValues ==
    {NotAList, InfoList(<< >>)}
    \cup {InfoList(<< i >>) : i \in MetricInfos}
    \cup {InfoList(<< i, MetricInfo(TRUE, "counter", "absent", "absent") >>) :
             i \in MetricInfos}

Metadata == UNION {[S -> MetricValues] : S \in SUBSET MetricNames}

\* A /metadata answer with status "success", whose data is followed with its
\* content, and the outcomes a metadata call is followed with.
SuccessAnswer == Outcome("ok", 200, TRUE, Body("map", "success", "absent", FALSE, NoData))

MetadataOutcomes ==
    {Outcome("fault", 0, FALSE, NoBody),
     Outcome("ok", 200, TRUE,
             Body("map", "error", "bad_data: parse error", FALSE, NoData)),
     SuccessAnswer}

\* get_metrics_metadata() is called: it has no parameter and goes to its GET.
CallGetMetricsMetadata(t) ==
    Requested([tool |-> "prometheus.get_metrics_metadata"], t,
              [res |-> Await, sent |-> [sent |-> TRUE, endpoint |-> "/metadata"]],
              NoMapping)

\* The GET of get_metrics_metadata completes; `metadata` is the data of a
\* success answer.
AnswerGetMetricsMetadata(o, metadata) ==
    /\ stage = "await"
    /\ call.tool = "prometheus.get_metrics_metadata"
    /\ reply' = Reply(o, metadata)
    /\ stage' = "done"
    /\ LET response == make_prometheus_request(o)
           try == IF response.k # "ret" THEN Propagate(response)
                  ELSE IF response.body.status # "success"
                      THEN Exc(PrometheusAPIError,
                               Msg("Failed to get metadata: ", error_msg(response.body)))
                  ELSE get_metrics_metadata_result(metadata)
       IN  out' = Except("prometheus", "Failed to get metrics metadata: ", try)
    /\ UNCHANGED << now, call, sent, handed, object, given >>
    /\ UNCHANGED << invocation, lifecycle, concurrent, methods, application >>

\* The caller has the outcome of the call followed with its content.
Return ==
    /\ stage = "done"
    /\ now' = NoInstant
    /\ call' = NoCall
    /\ stage' = "idle"
    /\ sent' = NoSent
    /\ reply' = NoReply
    /\ out' = NoRes
    /\ handed' = NoMapping
    /\ object' = NoMapping
    /\ given' = NoMapping
    /\ UNCHANGED << invocation, lifecycle, concurrent, methods, application >>

\* The answers a call is followed with: those to a call with time
\* parameters, tags or times are of one item at most.
LogAnswers(c) ==
    IF c.tool = "loki.query_logs" /\ c.start_time = << >> /\ c.end_time = << >>
    THEN LokiResults
    ELSE BriefLokiResults

TraceAnswers(c) ==
    IF c.params.tags = NoTagMapping /\ c.params.start_time = << >>
        /\ c.params.end_time = << >>
    THEN Seqs(Traces(MaxSpans), 1) \cup [1..2 -> Traces(1)]
    ELSE Seqs(Traces(1), 1)

\* The content delivered with outcome o: that of a well-formed answer only.
Delivering(o, answers) == IF o = WellFormed THEN answers ELSE {<< >>}

ContentNext ==
    \/ /\ stage = "idle"
       /\ \E query \in {"", "q"}, times \in TimePairs, t \in ClockReadings :
            CallQueryLogs(query, times[1], times[2], t)
    \/ /\ stage = "idle"
       /\ \E trace_id \in {"", "abc"}, label \in {"", "service_name=\"x\""},
             start_time \in FewTexts, t \in ClockReadings :
            CallSearchLogsByTraceId(trace_id, label, start_time, t)
    \/ /\ stage = "await"
       /\ call.tool \in {"loki.query_logs", "loki.search_logs_by_trace_id"}
       /\ \E o \in ContentOutcomes : \E results \in Delivering(o, LogAnswers(call)) :
            AnswerLogs(o, results)
    \/ /\ stage = "idle"
       /\ \E trace_id \in {"", "abc123"}, t \in ClockReadings : CallGetTrace(trace_id, t)
    \/ /\ stage = "await"
       /\ call.tool = "jaeger.get_trace"
       /\ \E o \in ContentOutcomes :
            \E trace_data \in Delivering(o, Seqs(Traces(MaxSpans), 1)) :
                AnswerGetTrace(o, trace_data)
    \/ /\ stage = "idle"
       /\ \E params \in SearchParams, t \in ClockReadings : CallSearchTraces(params, t)
    \/ /\ stage = "await"
       /\ call.tool = "jaeger.search_traces"
       /\ \E o \in ContentOutcomes : \E traces_data \in Delivering(o, TraceAnswers(call)) :
            AnswerSearchTraces(o, traces_data)
    \/ /\ stage = "idle"
       /\ \E service_name \in {""} \cup Services \cup {"cache"}, t \in ClockReadings :
            CallAnalyzeServiceDependencies(service_name, t)
    \/ /\ stage = "await"
       /\ call.tool = "jaeger.analyze_service_dependencies"
       /\ \E o \in ContentOutcomes : \E dependencies \in Delivering(o, Dependencies) :
            \E listing \in list(unique_services(
                                filtered_deps(call.service_name, dependencies))) :
                AnswerAnalyzeServiceDependencies(o, dependencies, listing)
    \/ /\ stage = "idle"
       /\ \E t \in ClockReadings : CallGetMetricsMetadata(t)
    \/ /\ stage = "await"
       /\ call.tool = "prometheus.get_metrics_metadata"
       /\ \E o \in MetadataOutcomes :
            \E metadata \in IF o = SuccessAnswer THEN Metadata ELSE {<< >>} :
                AnswerGetMetricsMetadata(o, metadata)
    \/ Return

ContentSpec == Init /\ [][ContentNext]_vars

-----------------------------------------------------------------------------
(* The life of an adapter's server process and of its HTTP client           *)

\* Largest number of GETs a process is followed through.
MaxRequests == 2

\* The module is run as a script: its import creates the client
\* (`http_client = httpx.AsyncClient(...)`) and registers the exit hook
\* (`atexit.register(lambda: http_client.aclose())`), then mcp.run() serves.
Start(m) ==
    /\ process[m].phase = "off"
    /\ process' = [process EXCEPT ![m] =
                      [@ EXCEPT !.phase = "serving", !.clients = @ + 1,
                                !.client = "open", !.hooks = @ + 1]]
    /\ UNCHANGED << invocation, content, concurrent, methods, application >>

\* A tool call reaches the gateway: `await http_client.get(url, params=...)`.
Get(m) ==
    /\ process[m].phase = "serving"
    /\ process[m].issued < MaxRequests
    /\ process' = [process EXCEPT ![m] =
                      [@ EXCEPT !.issued = @ + 1, !.through = @ + 1]]
    /\ UNCHANGED << invocation, content, concurrent, methods, application >>

\* mcp.run() returns (the transport is closed) or raises (an unhandled
\* exception, KeyboardInterrupt): its event loop is over and the interpreter
\* begins its shutdown.
Exit(m) ==
    /\ process[m].phase = "serving"
    /\ process' = [process EXCEPT ![m] = [@ EXCEPT !.phase = "exiting"]]
    /\ UNCHANGED << invocation, content, concurrent, methods, application >>

\* The interpreter runs the exit hook: the lambda calls http_client.aclose(),
\* which creates a coroutine object; nothing awaits it, no event loop runs
\* it, and it is discarded.  cleanup() is called by nothing.
AtExit(m) ==
    /\ process[m].phase = "exiting"
    /\ process[m].hooks > 0
    /\ process' = [process EXCEPT ![m] =
                      [@ EXCEPT !.phase = "exited", !.hooks = @ - 1,
                                !.coroutines = @ + 1]]
    /\ UNCHANGED << invocation, content, concurrent, methods, application >>

\* The process is ended by a signal Python does not handle or by os._exit:
\* atexit runs no hook.
Kill(m) ==
    /\ process[m].phase \in {"serving", "exiting"}
    /\ process' = [process EXCEPT ![m] = [@ EXCEPT !.phase = "killed"]]
    /\ UNCHANGED << invocation, content, concurrent, methods, application >>

LifecycleNext ==
    \/ \E m \in Modules : Start(m)
    \/ \E m \in Modules : Get(m)
    \/ \E m \in Modules : Exit(m)
    \/ \E m \in Modules : AtExit(m)
    \/ \E m \in Modules : Kill(m)

LifecycleSpec == Init /\ [][LifecycleNext]_vars

-----------------------------------------------------------------------------
(* Tool calls in progress at the same time in one adapter                   *)

\* The outcomes the GET of a concurrent call completes with: a transport
\* fault, and success answers whose data is a mapping with a result list or a
\* list.
Answer200(data) == Outcome("ok", 200, TRUE, Body("map", "success", "absent", FALSE, data))

Answers ==
    {Outcome("fault", 0, FALSE, NoBody),
     Answer200(Data("map", 1, "ok", "list", 1)),
     Answer200(Data("list", 1, "ok", "absent", 0))}

\* Number of sub-queries of a composite call, the first ones, whose GET may
\* fail.
MaxFaulty == 2

\* The outcomes drawn for the k-th GET of a call of tool t.
AnswersOf(t, k) ==
    IF t \in CompositeTools
    THEN {o \in Answers : (o.net = "fault" /\ k <= MaxFaulty) \/ o.body.data.shape = "map"}
    ELSE Answers

\* Variant of Frame that keeps the locals of every call in one module-level
\* place.
Frame_Module(i) == "first"

\* The place the locals of the call run by task i are kept in: the frame of
\* its own coroutine.  The tool bodies assign to no module-level name; what
\* they read of the module is http_client, the URL and the logger.
Frame(i) == i

\* The calls in progress beside task i are calls of the adapter of tool t.
SameAdapter(i, t) ==
    \A j \in Tasks \ {i} :
        tasks[j].pc # "idle" => BackendOf(tasks[j].tool) = BackendOf(t)

\* Task i is given a call of tool t: the body runs up to its first GET, or
\* raises before it.
CallTool(i, t, a) ==
    /\ tasks[i].pc = "idle"
    /\ SameAdapter(i, t)
    /\ a \in ArgsOf(t)
    /\ LET r == IF t \in CompositeTools THEN Await ELSE Run(t, a, NoOutcome)
       IN  tasks' = [tasks EXCEPT ![i] =
                        [NoTask EXCEPT !.pc = IF r.k = "await" THEN "await" ELSE "done",
                                       !.tool = t, !.args = a,
                                       !.returned = IF r.k = "await" THEN NoRes ELSE r]]
    /\ frames' = [frames EXCEPT ![Frame(i)] = Locals(a)]
    /\ UNCHANGED << invocation, content, lifecycle, methods, application >>

\* The GET task i is suspended at completes with outcome o, and the body runs
\* on: a single-query tool to its end, a composite tool to the GET of its next
\* sub-query or to its end.
AnswerTool(i, o) ==
    /\ tasks[i].pc = "await"
    /\ o \in AnswersOf(tasks[i].tool, Len(tasks[i].got) + 1)
    /\ LET t == tasks[i].tool
           f == frames[Frame(i)]
           k == Len(f.entries) + 1
           r == IF t \in CompositeTools THEN RunSubQuery(t, k, o) ELSE Run(t, f.args, o)
           stored == Append(f.entries, r.val)
           counted == IF t = "prometheus.check_alerting_thresholds"
                      THEN count_alert(f.summary, k, r.val) ELSE f.summary
           heard == [tasks[i] EXCEPT
                        !.got = Append(@, o),
                        !.beside = @ \/ \E j \in Tasks \ {i} : tasks[j].pc = "await"]
       IN  IF t \notin CompositeTools \/ r.k = "exc"
           THEN /\ tasks' = [tasks EXCEPT ![i] =
                                [heard EXCEPT !.pc = "done", !.returned = r,
                                              !.metrics = f.entries, !.counts = f.summary]]
                /\ UNCHANGED frames
           ELSE /\ frames' = [frames EXCEPT ![Frame(i)] =
                                [f EXCEPT !.entries = stored, !.summary = counted]]
                /\ tasks' = [tasks EXCEPT ![i] =
                                IF SubQueriesIssued(t, Len(stored)) = {}
                                THEN [heard EXCEPT
                                        !.pc = "done",
                                        !.returned = Ret(Val("none", "map", Len(stored), FALSE)),
                                        !.metrics = stored, !.counts = counted]
                                ELSE heard]
    /\ UNCHANGED << invocation, content, lifecycle, methods, application >>

\* The caller of task i has its outcome; the frame of the call is gone.
CollectResult(i) ==
    /\ tasks[i].pc = "done"
    /\ tasks' = [tasks EXCEPT ![i] = NoTask]
    /\ frames' = [frames EXCEPT ![Frame(i)] = Locals(NoArgs)]
    /\ UNCHANGED << invocation, content, lifecycle, methods, application >>

ConcurrentNext ==
    \/ \E i \in Tasks, t \in Tools : \E a \in ArgsOf(t) : CallTool(i, t, a)
    \/ \E i \in Tasks, o \in Answers : AnswerTool(i, o)
    \/ \E i \in Tasks : CollectResult(i)

ConcurrentSpec == Init /\ [][ConcurrentNext]_vars

-----------------------------------------------------------------------------
(* The Assistant (chatbot/app/agent.py) and cleanup_mcp_client (utils.py).   *)
(* A method is an operator from the attributes `self`, the arguments and     *)
(* what the libraries do to the attributes after the call, the library calls *)
(* made and what the method returned or raised.                              *)

RuntimeError(what) == Exc("RuntimeError", Msg(what, ""))

\* A method returned None.
ReturnedNone == Ret(NoVal)

Effect(self, calls, res) == [self |-> self, calls |-> calls, res |-> res]

\* _validate_inputs: a configuration or a system prompt that is empty raises
\* ValueError.
_validate_inputs(mcp_client_config, system_prompt) ==
    IF mcp_client_config = ""
        THEN ValueError("MCP client configuration cannot be empty")
    ELSE IF system_prompt = "" THEN ValueError("System prompt cannot be empty")
    ELSE ReturnedNone

\* _setup_mcp_client: the client is stored when its constructor returns; an
\* exception of the constructor is logged and not raised again.
_setup_mcp_client(self, mcp_client_config, constructed) ==
    IF constructed THEN [self EXCEPT !.mcp_client = Object(mcp_client_config)] ELSE self

\* _retrieve_tools: `tools` is what get_tools() gives: "tools", "empty" (no
\* tool: replaced by []) or "fault" (it raises).  Any exception, also that of
\* reading a client that is unset or None, is logged and the method returns
\* None.
_retrieve_tools(self, tools) ==
    IF self.mcp_client.kind # "object" THEN "None"
    ELSE IF tools = "fault" THEN "None"
    ELSE tools

\* _log_tools: enumerate(tools) raises TypeError when tools is None.
_log_tools(tools) ==
    IF tools = "None" THEN TypeError("'NoneType' object is not iterable") ELSE ReturnedNone

\* _create_agent: the agent is stored when create_react_agent returns; an
\* exception of it is logged and not raised again.
_create_agent(self, system_prompt, created) ==
    IF created THEN [self EXCEPT !.agent = Object(system_prompt)] ELSE self

\* Variant of initialize without the test of _initialized.
initialize_Again(self, mcp_client_config, system_prompt, env) ==
    LET stored == [self EXCEPT !.system_prompt = Object(system_prompt)]
        connected == _setup_mcp_client(stored, mcp_client_config, env.client)
        tools == _retrieve_tools(connected, env.tools)
        calls == {"MultiServerMCPClient"}
                 \cup (IF connected.mcp_client.kind = "object" THEN {"get_tools"} ELSE {})
    IN  IF _validate_inputs(mcp_client_config, system_prompt).k = "exc"
            THEN Effect(self, {}, ReturnedNone)
        ELSE IF _log_tools(tools).k = "exc" THEN Effect(connected, calls, ReturnedNone)
        ELSE Effect([_create_agent(connected, system_prompt, env.agent)
                          EXCEPT !._initialized = TRUE],
                      calls \cup {"create_react_agent"}, ReturnedNone)

\* initialize(mcp_client_config, system_prompt).  env: whether the client
\* constructor returns, what get_tools() gives, whether create_react_agent
\* returns.  Every exception raised in the try block is logged at line 71-72
\* and the method returns None.
initialize(self, mcp_client_config, system_prompt, env) ==
    LET stored == [self EXCEPT !.system_prompt = Object(system_prompt)]
        connected == _setup_mcp_client(stored, mcp_client_config, env.client)
        tools == _retrieve_tools(connected, env.tools)
        calls == {"MultiServerMCPClient"}
                 \cup (IF connected.mcp_client.kind = "object" THEN {"get_tools"} ELSE {})
    IN  IF self._initialized THEN Effect(self, {}, ReturnedNone)
        ELSE IF _validate_inputs(mcp_client_config, system_prompt).k = "exc"
            THEN Effect(self, {}, ReturnedNone)
        ELSE IF _log_tools(tools).k = "exc" THEN Effect(connected, calls, ReturnedNone)
        ELSE Effect([_create_agent(connected, system_prompt, env.agent)
                          EXCEPT !._initialized = TRUE],
                      calls \cup {"create_react_agent"}, ReturnedNone)

\* The attributes cleanup leaves on both of its paths.
Cleared == [agent |-> None, mcp_client |-> None, system_prompt |-> None,
            _initialized |-> FALSE]

\* Variant of cleanup without the outer except clause.
cleanup_Unguarded(self, closed) ==
    IF self.mcp_client.kind = "unset"
        THEN Effect(self, {},
                      AttributeError("'Assistant' object has no attribute 'mcp_client'"))
    ELSE IF self.mcp_client.kind = "object" THEN Effect(Cleared, {"close"}, ReturnedNone)
    ELSE Effect(Cleared, {}, ReturnedNone)

\* cleanup().  `closed`: whether the close operation of the client returns.
\* Reading mcp_client on an object it was never assigned to raises
\* AttributeError, which the outer except clause (167-173) handles by
\* clearing the attributes; an exception of the close operation is logged
\* (153-154) and the client dropped (155-156).
cleanup(self, closed) ==
    IF self.mcp_client.kind = "unset" THEN Effect(Cleared, {}, ReturnedNone)
    ELSE IF self.mcp_client.kind = "object" THEN Effect(Cleared, {"close"}, ReturnedNone)
    ELSE Effect(Cleared, {}, ReturnedNone)

\* is_initialized
is_initialized(self) == self._initialized

\* What agent.ainvoke gives: a mapping with a non-empty "messages" list, a
\* mapping with an "output" member, another value, or an exception.
Response(shape) == [shape |-> shape]

AgentAnswers == {"messages", "output", "other", "fault"}

\* invoke(messages, config).
invoke(self, answer) ==
    IF ~self._initialized
        THEN Effect(self, {},
                      RuntimeError("Assistant not initialized. Call initialize() first."))
    \* `if not self.agent` on an object agent was never assigned to
    ELSE IF self.agent.kind = "unset"
        THEN Effect(self, {},
                      AttributeError("'Assistant' object has no attribute 'agent'"))
    ELSE IF self.agent.kind = "none"
        THEN Effect(self, {}, RuntimeError("Agent not available"))
    ELSE IF answer = "fault"
        THEN Effect(self, {"ainvoke"}, Exc("Exception", Msg("agent failure", "")))
    ELSE Effect(self, {"ainvoke"}, Ret(Response(answer)))

\* cleanup_mcp_client(assistant) of an Assistant: it awaits assistant.cleanup()
\* and logs whatever exception that raises.
cleanup_mcp_client(self, closed) ==
    Effect(cleanup(self, closed).self, cleanup(self, closed).calls, ReturnedNone)

\* The configurations and system prompts initialize is called with, and what
\* the libraries do during it.
Configs == {"", "servers", "other servers"}
Prompts == {"", "You are an observability assistant", "other prompt"}

Environments == [client : BOOLEAN, tools : {"tools", "empty", "fault"}, agent : BOOLEAN]

\* A method of the Assistant is called and runs to its end.
Called(op, with, env, r) ==
    /\ assistant' = r.self
    /\ done' = [op |-> op, with |-> with, env |-> env, before |-> assistant,
                calls |-> r.calls, res |-> r.res]
    /\ UNCHANGED << invocation, content, lifecycle, concurrent, application >>

Initialize(mcp_client_config, system_prompt, env) ==
    Called("initialize", << mcp_client_config, system_prompt >>, env,
           initialize(assistant, mcp_client_config, system_prompt, env))

Invoke(answer) ==
    Called("invoke", << "", "" >>, [answer |-> answer], invoke(assistant, answer))

Cleanup(closed) ==
    Called("cleanup", << "", "" >>, [closed |-> closed], cleanup(assistant, closed))

CleanupMcpClient(closed) ==
    Called("cleanup_mcp_client", << "", "" >>, [closed |-> closed],
           cleanup_mcp_client(assistant, closed))

\* Another Assistant is constructed and followed from here on.
Construct ==
    /\ assistant' = Assistant
    /\ done' = NoMethod
    /\ UNCHANGED << invocation, content, lifecycle, concurrent, application >>

MethodsNext ==
    \/ \E c \in Configs, p \in Prompts, env \in Environments : Initialize(c, p, env)
    \/ \E answer \in AgentAnswers : Invoke(answer)
    \/ \E closed \in BOOLEAN : Cleanup(closed)
    \/ \E closed \in BOOLEAN : CleanupMcpClient(closed)
    \/ Construct

AssistantSpec == Init /\ [][MethodsNext]_vars

-----------------------------------------------------------------------------
(* The application (chatbot/app/main.py, ui.py): the script Streamlit runs  *)
(* from top to bottom at the start of a session and after each input, on    *)
(* the session state `s`.  A run is followed as a record                    *)
(*   [session, calls, res, stopped, widgets, uuids, cached, escaped]        *)

\* Largest number of prompts submitted between two resets.
MaxPrompts == 2

\* Largest number of thread ids generated in a session.
MaxThreads == 3

\* The beginning of a run on session state s.
Began(s, uuids, cached) ==
    [session |-> s, calls |-> {}, res |-> NoRes, stopped |-> FALSE, widgets |-> FALSE,
     uuids |-> uuids, cached |-> cached, escaped |-> FALSE]

\* del st.session_state[key] for the keys of K that are set.
Deleted(s, K) ==
    [keys |-> s.keys \ K,
     messages |-> IF "messages" \in K THEN << >> ELSE s.messages,
     thread_id |-> IF "thread_id" \in K THEN 0 ELSE s.thread_id,
     assistant |-> IF "assistant" \in K THEN Assistant ELSE s.assistant]

\* main.py 34-37: the event loop is created when the session has none.
event_loop(r) == [r EXCEPT !.session.keys = @ \cup {"event_loop"}]

\* initialize_session_state (ui.py 46-53)
initialize_session_state(r) ==
    LET flagged == IF "session_initialized" \in r.session.keys THEN r.session
                   ELSE [r.session EXCEPT !.keys = @ \cup {"session_initialized", "messages"},
                                          !.messages = << >>]
    IN  IF "thread_id" \in flagged.keys THEN [r EXCEPT !.session = flagged]
        ELSE [r EXCEPT !.session = [flagged EXCEPT !.keys = @ \cup {"thread_id"},
                                                   !.thread_id = r.uuids + 1],
                       !.uuids = @ + 1]

\* main.py 134-135
messages_present(r) ==
    IF "messages" \in r.session.keys THEN r
    ELSE [r EXCEPT !.session.keys = @ \cup {"messages"}, !.session.messages = << >>]

\* What a run finds outside the session: whether the configuration file
\* loads ("fail", or the configuration, "" being the empty mapping), whether
\* the prompt file loads, what the libraries do during initialize, and what
\* the agent answers.
RunEnvironments ==
    [config : {"fail", "", "servers"}, prompt : {"fail", "You are an observability assistant"},
     client : BOOLEAN, tools : {"tools", "empty", "fault"}, agent : BOOLEAN,
     answer : AgentAnswers]

\* initialize_assistant (main.py 89-123).  When loading the configuration or
\* the prompt raises, the except clause deletes the keys assistant,
\* event_loop and mcp_client and stops the run.  Assistant.initialize never
\* raises: the Assistant stored at line 102 stays in the session state.
initialize_assistant(r, env) ==
    LET loaded == r.cached \/ env.prompt # "fail"
        created == initialize(Assistant, env.config,
                              IF env.prompt = "fail"
                              THEN "You are an observability assistant" ELSE env.prompt,
                              env)
    IN  IF "assistant" \in r.session.keys THEN r
        ELSE IF env.config = "fail"
            THEN [r EXCEPT !.session = Deleted(@, {"assistant", "event_loop", "mcp_client"}),
                           !.stopped = TRUE]
        ELSE IF ~loaded
            THEN [r EXCEPT !.session = Deleted(@, {"assistant", "event_loop", "mcp_client"}),
                           !.stopped = TRUE]
        ELSE [r EXCEPT !.session.keys = @ \cup {"assistant"},
                       !.session.assistant = created.self,
                       !.calls = @ \cup {"Assistant()", "initialize"},
                       !.cached = TRUE]

\* sidebar_cleanup (ui.py 17-30) when the button was pressed, up to st.rerun().
sidebar_cleanup(r) ==
    [r EXCEPT !.session = [Deleted(@, {"thread_id"})
                              EXCEPT !.keys = @ \cup {"session_initialized", "messages"},
                                     !.messages = << >>]]

\* An entry of the message history.  `error`: the content is the text of the
\* exception after "I encountered an error while processing your request: ".
Message(role, text, error) == [role |-> role, content |-> text, error |-> error]

\* main.py 171-188: the output made of what invoke returned or raised.
output(res) ==
    IF res.k = "exc" THEN Message("assistant", res.msg[1], TRUE)
    ELSE IF res.val.shape = "messages" THEN Message("assistant", "answer", FALSE)
    ELSE IF res.val.shape = "output" THEN Message("assistant", "output", FALSE)
    ELSE Message("assistant", "str(response)", FALSE)

\* st.session_state.assistant.invoke(...): reading a missing key raises
\* AttributeError.
session_invoke(s, answer) ==
    IF "assistant" \in s.keys THEN invoke(s.assistant, answer).res
    ELSE AttributeError("st.session_state has no attribute \"assistant\"")

\* Variant of chat that lets the exception of invoke leave the handler
\* before the assistant message is appended.
chat_Reraising(r, prompt, answer) ==
    LET res == session_invoke(r.session, answer)
        asked == Append(r.session.messages, Message("user", prompt, FALSE))
    IN  [r EXCEPT !.session.messages = IF res.k = "exc" THEN asked
                                       ELSE Append(asked, output(res)),
                  !.calls = @ \cup {"invoke"},
                  !.res = res,
                  !.escaped = res.k = "exc"]

\* main.py 150-197: the chat input was submitted with `prompt`.
chat(r, prompt, answer) ==
    LET res == session_invoke(r.session, answer)
        asked == Append(r.session.messages, Message("user", prompt, FALSE))
    IN  [r EXCEPT !.session.messages = Append(asked, output(res)),
                  !.calls = @ \cup {"invoke"},
                  !.res = res]

\* main() (main.py 126-197) after the top of the script, for the input that
\* started the run: "load", "button" (up to st.rerun()) or a prompt.
main(r, input, env) ==
    LET ready == initialize_assistant(
                     messages_present(initialize_session_state(event_loop(r))), env)
    IN  IF ready.stopped THEN ready
        ELSE IF input = "button" THEN sidebar_cleanup(ready)
        ELSE IF input = "load" THEN [ready EXCEPT !.widgets = TRUE]
        ELSE [chat(ready, input, env.answer) EXCEPT !.widgets = TRUE]

\* The prompts a user submits.
UserPrompts == {"show error logs"}

\* A script run has ended with r.
Ran(op, r) ==
    /\ session' = r.session
    /\ script' = [op |-> op, before |-> session, calls |-> r.calls, res |-> r.res,
                  stopped |-> r.stopped, widgets |-> r.widgets, uuids |-> r.uuids,
                  cached |-> r.cached, escaped |-> r.escaped]
    /\ UNCHANGED << invocation, content, lifecycle, concurrent, methods >>

\* The session starts, or the script is run again without widget input.
Load(env) ==
    Ran("load", main(Began(session, script.uuids, script.cached), "load", env))

\* The user submits a prompt in the chat input drawn by the last run.
Prompt(prompt, env) ==
    /\ script.widgets
    /\ Len(session.messages) < 2 * MaxPrompts
    /\ Ran("prompt", main(Began(session, script.uuids, script.cached), prompt, env))

\* The user presses "Reset & Cleanup Resources", drawn by the last run: the
\* run up to st.rerun(), and the rerun that follows.
Press(env) ==
    /\ script.widgets
    /\ script.uuids < MaxThreads
    /\ LET first == main(Began(session, script.uuids, script.cached), "button", env)
           rerun == main(Began(first.session, first.uuids, first.cached), "load", env)
       IN  Ran("button", IF first.stopped THEN first
                         ELSE [rerun EXCEPT !.calls = @ \cup first.calls])

ApplicationNext ==
    \/ \E env \in RunEnvironments : Load(env)
    \/ \E prompt \in UserPrompts, env \in RunEnvironments : Prompt(prompt, env)
    \/ \E env \in RunEnvironments : Press(env)

ApplicationSpec == Init /\ [][ApplicationNext]_vars

-----------------------------------------------------------------------------
(* Vocabulary of the properties                                            *)

SingleTools == Tools \ CompositeTools

\* The GET completed with a success status and a body that decodes.
Delivered(o) == o.net = "ok" /\ o.code \in 200..299 /\ o.decodable

\* A required parameter of the call is empty or missing.
RequiredMissing(t, a) ==
    CASE t \in {"jaeger.get_trace", "jaeger.get_service_operations", "loki.query_logs",
                "loki.get_label_values", "prometheus.query_prometheus",
                "prometheus.get_label_values", "prometheus.get_series"} -> a.a = ""
      [] t = "loki.search_logs_by_trace_id" -> a.a = "" \/ a.b = ""
      [] t = "prometheus.query_range_prometheus" -> a.a = "" \/ a.b = "" \/ a.c = ""
      [] OTHER -> FALSE

\* The call ended by raising its backend's own error kind.
RaisedBackendError ==
    pc = "done" /\ result.k = "exc" /\ result.exc = ErrorKind(BackendOf(tool))

\* The decoded response has no top-level data member.
LacksData(o) == Delivered(o) /\ (o.body.top # "map" \/ o.body.data.shape = "absent")

\* A /query answer that is a well-formed success: a mapping with status
\* "success" whose data is a mapping with a result list (or none).
WellFormedSuccess(o) ==
    /\ Delivered(o)
    /\ o.body.top = "map"
    /\ o.body.status = "success"
    /\ o.body.data.shape = "map"
    /\ o.body.data.r # "null"

\* The gateway of a backend.
GatewayOf(backend, o) ==
    CASE backend = "jaeger" -> make_jaeger_request(o)
      [] backend = "loki" -> make_loki_request(o)
      [] backend = "prometheus" -> make_prometheus_request(o)

\* The name of the i-th sub-query of a composite tool, in definition order.
SubQueryName(t, i) ==
    IF t = "prometheus.analyze_http_metrics" THEN queries[i] ELSE alert_queries[i].name

LastEntry == entries[Len(entries)]

\* The query_logs call search_logs_by_trace_id makes with parameters a.
LogQueryOf(a, o) ==
    query_logs([a |-> "x", b |-> IF a.c = "" THEN "x" ELSE a.c, c |-> ""], o)

-----------------------------------------------------------------------------
(* Properties                                                              *)

\* C1: a call of a tool whose required parameter is empty or missing fails
\* with the backend's error kind, and no HTTP request is sent at any point of
\* the call.
C1_RequiredParameterFailsFast ==
    (tool \in Tools /\ RequiredMissing(tool, args)) =>
        /\ RaisedBackendError
        /\ requests = 0
        /\ inflight = {}
        /\ resp = NoOutcome

C1_Witness ==
    /\ tool = "loki.search_logs_by_trace_id"
    /\ args.a = "x"
    /\ args.b = ""
    /\ pc = "done"
    /\ result.exc = LokiAPIError

\* C2: whatever the backend answers, a call that raises raises its backend's
\* own error kind: no other exception kind leaves a tool entry point.
C2_OnlyBackendErrorsEscape ==
    (pc = "done" /\ result.k = "exc") => result.exc = ErrorKind(BackendOf(tool))

\* C3: analyze_http_metrics never raises because of failing sub-queries: it
\* returns 8 metric entries, an entry with an error field and status "error"
\* for each failed sub-query and an entry with data and the backend's status
\* for each successful one.
C3_HttpMetricsNeverRaises ==
    tool = "prometheus.analyze_http_metrics" =>
        /\ result.k # "exc"
        /\ pc = "done" => (result.k = "ret" /\ Len(entries) = 8)
        /\ resp # NoOutcome =>
              /\ entries # << >>
              /\ IF WellFormedSuccess(resp)
                 THEN /\ LastEntry.data
                      /\ ~LastEntry.error
                      /\ LastEntry.status = resp.body.status
                 ELSE /\ LastEntry.error
                      /\ ~LastEntry.data
                      /\ LastEntry.status = "error"

\* C4 as claimed: when the log query of search_logs_by_trace_id fails, the
\* call does not raise and returns a result recording the error.
C4_FailureRecordedNotRaised ==
    (/\ tool = "loki.search_logs_by_trace_id"
     /\ pc = "done"
     /\ requests = 1
     /\ LogQueryOf(args, resp).k = "exc") => result.k = "ret"

\* C4 as amended: when the log query of search_logs_by_trace_id fails, the
\* LokiAPIError raised by query_logs is re-raised unchanged and no result is
\* returned; when the log query succeeds the call returns.
C4_FailurePropagates ==
    (/\ tool = "loki.search_logs_by_trace_id"
     /\ pc = "done"
     /\ requests = 1) =>
        IF LogQueryOf(args, resp).k = "exc"
        THEN /\ result = LogQueryOf(args, resp)
             /\ result.exc = LokiAPIError
        ELSE result.k = "ret"

C4_Witness ==
    /\ tool = "loki.search_logs_by_trace_id"
    /\ pc = "done"
    /\ requests = 1
    /\ resp.net = "ok"
    /\ resp.code = 500
    /\ result.k = "exc"

\* C5: check_alerting_thresholds never raises because of failing alert
\* queries: it returns 5 alert entries, an entry with an error field and
\* firing = FALSE for each failed alert query, the others being evaluated.
C5_AlertsNeverRaise ==
    tool = "prometheus.check_alerting_thresholds" =>
        /\ result.k # "exc"
        /\ pc = "done" => (result.k = "ret" /\ Len(entries) = 5)
        /\ resp # NoOutcome =>
              /\ entries # << >>
              /\ IF WellFormedSuccess(resp)
                 THEN /\ ~LastEntry.error
                      /\ LastEntry.firing = (resp.body.data.rn > 0)
                 ELSE /\ LastEntry.error
                      /\ ~LastEntry.firing

\* C6: in a Prometheus single-query tool, an answer whose status is not
\* "success" makes the call raise PrometheusAPIError with the backend's error
\* text in its message; nothing is returned.
C6_StatusNotSuccessFails ==
    (/\ tool \in PrometheusSingle
     /\ pc = "done"
     /\ requests = 1
     /\ Delivered(resp)
     /\ resp.body.top = "map"
     /\ resp.body.status # "success") =>
        /\ result.k = "exc"
        /\ result.exc = PrometheusAPIError
        /\ result.val = NoVal
        /\ resp.body.error # "absent" => result.msg[2] = resp.body.error

C6_Witness ==
    /\ tool = "prometheus.query_prometheus"
    /\ pc = "done"
    /\ Delivered(resp)
    /\ resp.body.top = "map"
    /\ resp.body.status = "error"
    /\ resp.body.error \in ErrorTexts
    /\ result.msg[2] \in ErrorTexts

\* C7 as claimed: in every tool of every backend, a decoded response without
\* the top-level data member makes the call raise the backend's error kind.
C7_MissingDataFailsEveryTool ==
    (tool \in Tools /\ pc = "done" /\ requests >= 1 /\ LacksData(resp)) =>
        (result.k = "exc" /\ result.exc = ErrorKind(BackendOf(tool)))

\* C7 as amended: in every single-query tool a decoded response without the
\* top-level data member makes the call raise the backend's error kind and
\* return nothing; in the two composite tools the sub-query that got it is
\* recorded as an error entry and the composite call does not raise.
C7_MissingDataFails ==
    /\ (tool \in SingleTools /\ pc = "done" /\ requests = 1 /\ LacksData(resp)) =>
            (result.k = "exc" /\ result.exc = ErrorKind(BackendOf(tool))
                /\ result.val = NoVal)
    /\ (tool \in CompositeTools /\ LacksData(resp)) =>
            /\ result.k # "exc"
            /\ entries # << >>
            /\ LastEntry.error
            /\ ~LastEntry.data

C7_Witness ==
    /\ tool = "prometheus.get_label_names"
    /\ pc = "done"
    /\ Delivered(resp)
    /\ resp.body.top = "map"
    /\ resp.body.status = "success"
    /\ resp.body.data.shape = "absent"
    /\ result.exc = PrometheusAPIError

\* C8: a gateway returns the decoded body exactly when the GET completed with
\* a success status and a decodable body; otherwise it raises its backend's
\* error kind, and so does the tool that called it.
C8_GatewayRaisesBackendError ==
    resp # NoOutcome =>
        /\ \A backend \in Backends :
              LET g == GatewayOf(backend, resp)
              IN  /\ g.k = "ret" <=> Delivered(resp)
                  /\ g.k = "ret" => g.body = resp.body
                  /\ g.k # "ret" => (g.k = "exc" /\ g.exc = ErrorKind(backend))
        /\ (tool \in SingleTools /\ ~Delivered(resp)) => RaisedBackendError

C8_Witness ==
    /\ tool = "jaeger.get_services"
    /\ pc = "done"
    /\ resp.net = "ok"
    /\ resp.code = 500
    /\ resp.decodable
    /\ result.exc = JaegerAPIError

\* C9: no retry.  A single-query call sends at most one GET and ends as soon
\* as it is answered, in failure when the GET failed; a composite call sends
\* one GET per sub-query it reaches, never more than it has sub-queries.
C9_NoRetry ==
    /\ tool \in SingleTools =>
            /\ requests <= 1
            /\ resp # NoOutcome => pc = "done"
            /\ (pc = "done" /\ requests = 1 /\ ~Delivered(resp)) => result.k = "exc"
    /\ tool \in CompositeTools =>
            /\ requests <= (IF tool = "prometheus.analyze_http_metrics" THEN 8 ELSE 5)
            /\ requests = Len(entries)
                            + (IF pc = "await" \/ result.k = "exc" THEN 1 ELSE 0)

C9_Witness ==
    /\ tool = "prometheus.analyze_http_metrics"
    /\ pc = "done"
    /\ requests = 8
    /\ result.k = "ret"
    /\ \E i \in 1..Len(entries) : entries[i].error
    /\ resp.net = "fault"

\* C10: the sub-queries of a composite call are sent one at a time in
\* definition order: the only GET in flight is that of the sub-query after
\* the completed ones.
C10_SequentialSubQueries ==
    tool \in CompositeTools =>
        /\ Cardinality(inflight) <= 1
        /\ pc = "await" => inflight = {Len(entries) + 1}
        /\ \A i \in 1..Len(entries) : entries[i].name = SubQueryName(tool, i)

C10_Witness ==
    /\ tool = "prometheus.check_alerting_thresholds"
    /\ pc = "await"
    /\ Len(entries) = 3
    /\ inflight = {4}
    /\ entries[2].error

-----------------------------------------------------------------------------
(* Properties of the calls followed with their content                      *)

\* The call of tool t has ended by returning a result.
Answered(t) == stage = "done" /\ call.tool = t /\ out.k = "ret"

\* The sum of the value counts of the streams of a "result" list.
RECURSIVE SumOfValueCounts(_)
SumOfValueCounts(results) ==
    IF results = << >> THEN 0
    ELSE Len(Head(results).values) + SumOfValueCounts(Tail(results))

\* The values of the streams of a "result" list, stream after stream.
RECURSIVE AllValues(_)
AllValues(results) ==
    IF results = << >> THEN << >>
    ELSE Head(results).values \o AllValues(Tail(results))

\* C11: for every well-formed Loki answer query_logs returns a result whose
\* summary.total_entries is the sum of the streams' value counts and the
\* number of entries of logs, whose summary.streams_count is the number of
\* streams, and in which the timestamp of every entry is derived from that
\* entry's own nanosecond value, the entries being those of the answer in
\* order.
C11_LogEntriesCounted ==
    (stage = "done" /\ call.tool = "loki.query_logs" /\ reply.outcome = WellFormed) =>
        /\ out.k = "ret"
        /\ out.val.summary.total_entries = SumOfValueCounts(reply.content)
        /\ out.val.summary.total_entries = Len(out.val.logs)
        /\ out.val.summary.streams_count = Len(reply.content)
        /\ \A i \in 1..Len(out.val.logs) :
              /\ out.val.logs[i].timestamp_ns = AllValues(reply.content)[i].timestamp_ns
              /\ out.val.logs[i].timestamp = fromtimestamp(out.val.logs[i].timestamp_ns)

C11_Witness ==
    /\ Answered("loki.query_logs")
    /\ Len(reply.content) = 2
    /\ Len(reply.content[1].values) = 2
    /\ Len(reply.content[2].values) = 1
    /\ reply.content[1].values[1].timestamp_ns # reply.content[1].values[2].timestamp_ns
    /\ out.val.summary.total_entries = 3
    /\ out.val.summary.streams_count = 2
    /\ out.val.logs[2].timestamp # out.val.logs[1].timestamp


\* The positions of the edges of a dependency list that touch service S,
\* every position when S is not given.
Touching(S, deps) ==
    {i \in 1..Len(deps) : S = "" \/ deps[i].parent = S \/ deps[i].child = S}

\* The members of a sequence, as a set.
Members(q) == {q[i] : i \in 1..Len(q)}

\* C12: analyze_service_dependencies called with a service name S returns
\* exactly the edges of the answer whose parent is S or whose child is S, in
\* the order of the answer; summary.unique_services is the union of the parent
\* and child names of the returned edges, each listed once; without a service
\* name every edge of the answer is returned; total_dependencies counts the
\* returned edges.
C12_DependenciesFiltered ==
    Answered("jaeger.analyze_service_dependencies") =>
        LET S == call.service_name
            deps == reply.content
            kept == Touching(S, deps)
            edges == out.val.dependencies
            listed == out.val.summary.unique_services
        IN  /\ Len(edges) = Cardinality(kept)
            /\ \A i \in kept :
                  LET at == Cardinality({j \in kept : j <= i})
                  IN  /\ edges[at].parent_service = deps[i].parent
                      /\ edges[at].child_service = deps[i].child
                      /\ edges[at].call_count = deps[i].callCount
            /\ out.val.summary.total_dependencies = Len(edges)
            /\ Members(listed) = {edges[i].parent_service : i \in 1..Len(edges)}
                                    \cup {edges[i].child_service : i \in 1..Len(edges)}
            /\ Len(listed) = Cardinality(Members(listed))
            /\ (S = "" => Len(edges) = Len(deps))

C12_Witness ==
    /\ Answered("jaeger.analyze_service_dependencies")
    /\ call.service_name = "user-service"
    /\ Len(reply.content) = 2
    /\ reply.content[1].parent = "frontend" /\ reply.content[1].child = "db"
    /\ reply.content[2].parent = "frontend" /\ reply.content[2].child = "user-service"
    /\ Len(out.val.dependencies) = 1
    /\ out.val.dependencies[1].child_service = "user-service"
    /\ Members(out.val.summary.unique_services) = {"frontend", "user-service"}


\* The positions of the spans of a list none of whose references is CHILD_OF.
Parentless(spans) ==
    {i \in 1..Len(spans) : "CHILD_OF" \notin Members(spans[i].references)}

\* The spans of the trace get_trace was answered with.
TraceSpans == reply.content[1].spans

\* The result of get_trace holds one record per span of the trace, in the
\* order of the trace, each a copy of its own span.
SpansInOrder ==
    /\ Len(out.val.spans) = Len(TraceSpans)
    /\ \A i \in 1..Len(TraceSpans) :
          /\ out.val.spans[i].span_id = TraceSpans[i].spanID
          /\ out.val.spans[i].operation_name = TraceSpans[i].operationName
          /\ out.val.spans[i].service_name = TraceSpans[i].service
          /\ out.val.spans[i].references = TraceSpans[i].references

\* C13 as stated: get_trace answered with a trace of N spans of which exactly
\* one has no parent reference returns N span records in order and a
\* root_span whose operation and service are those of the parentless span.
C13_TraceWithRootSpan ==
    (Answered("jaeger.get_trace") /\ Cardinality(Parentless(TraceSpans)) = 1) =>
        /\ SpansInOrder
        /\ "root_span" \in DOMAIN out.val
        /\ \A i \in Parentless(TraceSpans) :
              /\ out.val.root_span.operation_name = TraceSpans[i].operationName
              /\ out.val.root_span.service_name = TraceSpans[i].service

\* C13 (amended): get_trace answered with a trace of N spans returns a mapping
\* of trace_id, spans and processes only, with no root_span; spans holds N
\* records in the order of the trace, each a copy of its own span, so the
\* records without a CHILD_OF reference are those of the parentless spans.
C13_TraceSpansInOrder ==
    Answered("jaeger.get_trace") =>
        /\ SpansInOrder
        /\ DOMAIN out.val = {"trace_id", "spans", "processes"}
        /\ out.val.trace_id = call.trace_id
        /\ Parentless(out.val.spans) = Parentless(TraceSpans)

C13_Witness ==
    /\ Answered("jaeger.get_trace")
    /\ Len(TraceSpans) = 3
    /\ Parentless(TraceSpans) = {2}
    /\ Len(out.val.spans) = 3
    /\ out.val.spans[2].operation_name = "SELECT"
    /\ out.val.spans[1].operation_name = "GET /users"
    /\ "root_span" \notin DOMAIN out.val

\* C14: the root span of a trace summary is the first span of the trace none
\* of whose references is CHILD_OF: of several such spans the first in the
\* order of the trace, and None when every span has a CHILD_OF reference.
C14_RootSpanIsFirstParentless ==
    Answered("jaeger.search_traces") =>
        /\ Len(out.val.traces) = Len(reply.content)
        /\ \A t \in 1..Len(reply.content) :
              LET spans == reply.content[t].spans
                  roots == Parentless(spans)
                  found == out.val.traces[t].root_span
              IN  IF roots = {} THEN found = NoRootSpan
                  ELSE \E first \in roots :
                          /\ \A i \in roots : first <= i
                          /\ ~found.none
                          /\ found.operation_name = spans[first].operationName
                          /\ found.service_name = spans[first].service

C14_Witness ==
    /\ Answered("jaeger.search_traces")
    /\ Len(reply.content) = 1
    /\ Parentless(reply.content[1].spans) = {2, 3}
    /\ reply.content[1].spans[2].references = << "FOLLOWS_FROM" >>
    /\ reply.content[1].spans[2].operationName = "SELECT"
    /\ reply.content[1].spans[3].operationName = "GET /users"
    /\ out.val.traces[1].root_span.operation_name = "SELECT"


\* A text of the form ^\d+[smh]$: decimal digits followed by one unit letter.
IsRelative(text) ==
    /\ Len(text) >= 2
    /\ text[Len(text)] \in {"s", "m", "h"}
    /\ \A i \in 1..(Len(text) - 1) : IsDigit(text[i])

\* The seconds of a unit letter.
UnitSeconds(unit) == CASE unit = "s" -> 1 [] unit = "m" -> 60 [] unit = "h" -> 3600

\* The instant value x unit before the instant t, for a relative text; whole
\* days are taken off first.
Ago(t, text) ==
    LET unit == UnitSeconds(text[Len(text)])
        value == DecimalValue(SubSeq(text, 1, Len(text) - 1))
        perDay == 86400 \div unit
        s == t.sec - (value % perDay) * unit
    IN  Instant(t.day - (value \div perDay) + (s \div 86400), s % 86400)

\* A query_logs call with a query has passed its parameter building.
LogQueryCalled ==
    stage \in {"await", "done"} /\ call.tool = "loki.query_logs" /\ call.query # ""

\* C15: a start_time or end_time of the form ^\d+[smh]$ given to query_logs
\* is resolved to the clock reading minus value x unit, and that instant is
\* sent as the start or end parameter of the request.
C15_RelativeTimeResolved ==
    LogQueryCalled =>
        /\ IsRelative(call.start_time) =>
              /\ sent.sent
              /\ sent.start.kind = "stamp"
              /\ sent.start.at = Ago(now, call.start_time)
        /\ IsRelative(call.end_time) =>
              /\ sent.sent
              /\ sent.end.kind = "stamp"
              /\ sent.end.at = Ago(now, call.end_time)

\* The relative texts whose instant is a date of the calendar are resolved and
\* sent as stated.
RelativeTimeResolvedInRange ==
    (LogQueryCalled /\ sent.sent) =>
        /\ IsRelative(call.start_time) =>
              sent.start.kind = "stamp" /\ sent.start.at = Ago(now, call.start_time)
        /\ IsRelative(call.end_time) =>
              sent.end.kind = "stamp" /\ sent.end.at = Ago(now, call.end_time)

\* A call whose relative start_time reaches before the year 1 fails with the
\* backend's error and sends nothing.
RelativeTimeOverflows ==
    /\ LogQueryCalled
    /\ call.start_time = LongAgo
    /\ call.end_time = << >>
    /\ stage = "done"
    /\ ~sent.sent
    /\ out = Exc(LokiAPIError, Msg("Failed to query logs: ", "date value out of range"))


\* int() accepts the text: an optional sign and decimal digits (the texts
\* followed hold no blank and no underscore).
IsNumber(text) ==
    LET body == IF text # << >> /\ Head(text) \in {"+", "-"} THEN Tail(text) ELSE text
    IN  body # << >> /\ \A i \in 1..Len(body) : IsDigit(body[i])

\* A time text that cannot be parsed: given, and neither a number followed by
\* a unit letter nor, without such an ending, a well-formed ISO timestamp.
Unparseable(text) ==
    /\ text # << >>
    /\ IF text[Len(text)] \in {"s", "m", "h"}
       THEN ~IsNumber(SubSeq(text, 1, Len(text) - 1))
       ELSE text # << IsoText >>

\* Resolving the time text fails with an exception the helper lets through.
Overflowing(text) == _format_time_for_loki(text, now).k = "exc"

\* C16: a time text that cannot be parsed is returned by _format_time_for_loki
\* unchanged, with no exception, and query_logs (given a query) still issues
\* its request, with the text as the start or end parameter.
C16_UnparseableTimePassedThrough ==
    LogQueryCalled =>
        /\ Unparseable(call.start_time) =>
              /\ _format_time_for_loki(call.start_time, now) = Returned(Text(call.start_time))
              /\ sent.sent
              /\ sent.start = Text(call.start_time)
        /\ Unparseable(call.end_time) =>
              /\ _format_time_for_loki(call.end_time, now) = Returned(Text(call.end_time))
              /\ sent.sent
              /\ sent.end = Text(call.end_time)

\* The same, for the calls whose other time parameter does not overflow.
UnparseableTimePassedThroughAlone ==
    LogQueryCalled =>
        /\ (Unparseable(call.start_time) /\ ~Overflowing(call.end_time)) =>
              /\ _format_time_for_loki(call.start_time, now) = Returned(Text(call.start_time))
              /\ sent.sent
              /\ sent.start = Text(call.start_time)
        /\ (Unparseable(call.end_time) /\ ~Overflowing(call.start_time)) =>
              /\ _format_time_for_loki(call.end_time, now) = Returned(Text(call.end_time))
              /\ sent.sent
              /\ sent.end = Text(call.end_time)

\* A call with an unparseable start_time and an overflowing end_time fails
\* and sends nothing.
UnparseableTimeNotSent ==
    /\ LogQueryCalled
    /\ call.start_time = << "x" >>
    /\ call.end_time = LongAgo
    /\ stage = "done"
    /\ ~sent.sent
    /\ out = Exc(LokiAPIError, Msg("Failed to query logs: ", "date value out of range"))

\* The text Jaeger is sent for a tag value: "true" or "false" for a boolean,
\* the text of the value otherwise.
SentTagText(v) ==
    IF v.type = "bool" THEN (IF v.text = "True" THEN "true" ELSE "false") ELSE v.text

\* The tags of the request sent: the members of the JSON object, none when the
\* request has no tags parameter.
SentTags == IF sent.tags.present THEN sent.tags.json ELSE NoTagMapping

\* C17: in the request of search_traces every boolean tag value is sent as
\* "true" or "false" and every other value as its text; the tags sent have the
\* keys of the tags given; the mapping given is left as it was.
C17_TagsStringified ==
    (call.tool = "jaeger.search_traces" /\ sent.sent) =>
        /\ DOMAIN SentTags = DOMAIN call.params.tags
        /\ \A k \in DOMAIN call.params.tags :
              SentTags[k] = SentTagText(call.params.tags[k])
        /\ given = call.params
        /\ stage = "done" /\ out.k = "ret" => out.val.search_parameters.tags = call.params.tags

C17_Witness ==
    /\ call.tool = "jaeger.search_traces"
    /\ sent.sent
    /\ DOMAIN call.params.tags = {"error", "http.method"}
    /\ call.params.tags["error"] = TagValue("bool", "True")
    /\ call.params.tags["http.method"] = TagValue("str", "True")
    /\ sent.tags.json["error"] = "true"
    /\ sent.tags.json["http.method"] = "True"
    /\ given.tags["error"] = TagValue("bool", "True")


\* A result mapping query_logs returned is in the hands of its caller.
LogResultHanded == handed # NoMapping

\* C19 as stated: no mapping a tool has returned is modified afterwards, the
\* result mapping of query_logs in particular not by search_logs_by_trace_id,
\* and no tool modifies a parameter object it was given.
C19_NothingMutatedAfterReturn ==
    /\ LogResultHanded => object = handed
    /\ given # NoMapping => given = call.params

\* C19 (amended): the mapping query_logs returned to search_logs_by_trace_id
\* is modified afterwards in one way only: the keys trace_id and search_type
\* are added to it, every key it had keeps its value, and the mapping so
\* extended is what search_logs_by_trace_id returns; a mapping query_logs
\* returned to any other caller stays as returned; no tool modifies a
\* parameter object it was given.
C19_OnlyTraceMetadataAdded ==
    /\ LogResultHanded =>
          IF call.tool = "loki.search_logs_by_trace_id"
          THEN /\ DOMAIN object = DOMAIN handed \cup {"trace_id", "search_type"}
               /\ "trace_id" \notin DOMAIN handed
               /\ "search_type" \notin DOMAIN handed
               /\ \A k \in DOMAIN handed : object[k] = handed[k]
               /\ object.trace_id = call.trace_id
               /\ object.search_type = "trace_correlation"
               /\ out = Ret(object)
          ELSE object = handed /\ out = Ret(handed)
    /\ given # NoMapping => given = call.params

C19_Witness ==
    /\ Answered("loki.search_logs_by_trace_id")
    /\ LogResultHanded
    /\ Len(handed.logs) = 1
    /\ object # handed
    /\ object.trace_id = "abc"
    /\ object.logs = handed.logs
    /\ out.val = object


-----------------------------------------------------------------------------
(* Properties of the life of the HTTP client                                *)

\* The process of module m has ended.
Ended(m) == process[m].phase \in {"exited", "killed"}

\* C18: each adapter module creates exactly one HTTP client at its start,
\* every GET of the module goes through that client, and when the process has
\* shut down the close of the client has been carried out to completion,
\* exactly once, so the client is closed.
C18_ClientClosedOnceAtShutdown ==
    \A m \in Modules :
        /\ process[m].phase # "off" => process[m].clients = 1
        /\ process[m].through = process[m].issued
        /\ Ended(m) => process[m].client = "closed" /\ process[m].closes = 1

\* One client per started module, and every GET through it.
OneClientForEveryRequest ==
    \A m \in Modules :
        /\ process[m].phase # "off" => process[m].clients = 1
        /\ process[m].through = process[m].issued

\* No close of the client is ever carried out.
ClientNeverClosed ==
    \A m \in Modules : process[m].closes = 0 /\ process[m].client # "closed"

\* A process has shut down in the normal way, its exit hook has run, and its
\* client is still open: the hook has only created a coroutine.
ExitedWithOpenClient ==
    \E m \in Modules :
        /\ process[m].phase = "exited"
        /\ process[m].hooks = 0
        /\ process[m].coroutines = 1
        /\ process[m].client = "open"
        /\ process[m].through = MaxRequests


-----------------------------------------------------------------------------
(* Properties of the calls in progress at the same time                     *)

\* What a call of composite tool t makes, run alone, of the outcomes `got` of
\* its GETs from the k-th on, with the entries and summary it has so far.
RECURSIVE AloneLoop(_, _, _, _, _)
AloneLoop(t, got, k, stored, counted) ==
    IF k > Len(got)
    THEN [res |-> IF Len(stored) = SubQueryCount(t)
                  THEN Ret(Val("none", "map", Len(stored), FALSE)) ELSE NoRes,
          entries |-> stored, summary |-> counted]
    ELSE IF RunSubQuery(t, k, got[k]).k = "exc"
        THEN [res |-> RunSubQuery(t, k, got[k]), entries |-> stored, summary |-> counted]
    ELSE AloneLoop(t, got, k + 1, Append(stored, RunSubQuery(t, k, got[k]).val),
                   IF t = "prometheus.check_alerting_thresholds"
                   THEN count_alert(counted, k, RunSubQuery(t, k, got[k]).val)
                   ELSE counted)

\* What a call of tool t with parameters a makes, run alone, of the outcomes
\* `got` of its GETs: what it returns or raises (NoRes while it is suspended)
\* and the entries and summary of its result.
Alone(t, a, got) ==
    IF t \in CompositeTools THEN AloneLoop(t, got, 1, << >>, InitialSummary)
    ELSE [res |-> IF Run(t, a, NoOutcome).k # "await" THEN Run(t, a, NoOutcome)
                  ELSE IF got = << >> THEN NoRes
                  ELSE Run(t, a, got[1]),
          entries |-> << >>, summary |-> InitialSummary]

\* C20: calls in progress at the same time on one adapter do not interfere:
\* what each returns or raises, with the entries and the summary of its
\* result, is what the same call makes alone of the outcomes of its own GETs;
\* while it is suspended its locals are those of the call run alone; and no
\* two tasks keep their locals in the same place (what they share is the HTTP
\* client their GETs go through).
C20_ConcurrentCallsIndependent ==
    /\ \A i \in Tasks :
          tasks[i].pc # "idle" =>
              LET alone == Alone(tasks[i].tool, tasks[i].args, tasks[i].got)
              IN  IF tasks[i].pc = "done"
                  THEN /\ tasks[i].returned = alone.res
                       /\ tasks[i].metrics = alone.entries
                       /\ tasks[i].counts = alone.summary
                  ELSE /\ alone.res = NoRes
                       /\ frames[Frame(i)].args = tasks[i].args
                       /\ frames[Frame(i)].entries = alone.entries
                       /\ frames[Frame(i)].summary = alone.summary
    /\ \A i \in Tasks, j \in Tasks : Frame(i) = Frame(j) => i = j

C20_Witness ==
    /\ tasks["first"].pc = "done"
    /\ tasks["second"].pc = "done"
    /\ tasks["first"].beside
    /\ tasks["second"].beside
    /\ tasks["first"].tool = "prometheus.check_alerting_thresholds"
    /\ tasks["second"].tool = "prometheus.check_alerting_thresholds"
    /\ tasks["first"].got[1].net = "fault"
    /\ tasks["second"].got[1].net = "ok"
    /\ Len(tasks["first"].metrics) = 5
    /\ Len(tasks["second"].metrics) = 5
    /\ tasks["first"].counts # tasks["second"].counts


-----------------------------------------------------------------------------
(* Properties of the series lookup                                          *)

\* The GET of get_series was answered with a success: status "success" and a
\* list (or mapping) of series as data.
SeriesFound(o) ==
    /\ Delivered(o)
    /\ o.body.top = "map"
    /\ o.body.status = "success"
    /\ Sized(o.body.data)

\* C21: get_series called with a non-empty list of selectors, one or several,
\* sends one GET and, answered with a success, returns the series with
\* total_series their number; it fails before the request only when the list
\* is empty.
C21_SeriesForEverySelectorList ==
    (tool = "prometheus.get_series" /\ pc # "idle") =>
        /\ args.a # "" => requests = 1
        /\ (pc = "done" /\ requests = 0) => args.a = ""
        /\ (pc = "done" /\ args.a # "" /\ SeriesFound(resp)) =>
              /\ result.k = "ret"
              /\ result.val.n = resp.body.data.n

\* What holds of get_series: the same with one selector, while a list of
\* several selectors fails before the request, as the empty list does, with
\* the backend's error kind.
SeriesForOneSelector ==
    (tool = "prometheus.get_series" /\ pc # "idle") =>
        /\ args.a = "x" <=> requests = 1
        /\ args.a # "x" => (RaisedBackendError /\ requests = 0)
        /\ (pc = "done" /\ args.a = "x" /\ SeriesFound(resp)) =>
              /\ result.k = "ret"
              /\ result.val.n = resp.body.data.n

SeveralSelectorsFail ==
    /\ tool = "prometheus.get_series"
    /\ args.a = "xx"
    /\ pc = "done"
    /\ requests = 0
    /\ result.exc = PrometheusAPIError
    /\ result.msg[1] = "Failed to find series: "


-----------------------------------------------------------------------------
(* Properties of the alert summary                                          *)

\* The alert entries stored so far that are firing.
Firing == {i \in 1..Len(entries) : entries[i].firing}

\* The alert query answered with o succeeded with a non-empty result list.
AlertQueryFired(o) ==
    /\ query_prometheus(SubQueryArgs, o).k = "ret"
    /\ o.body.data.r = "list"
    /\ o.body.data.rn > 0

\* C30: in every result of check_alerting_thresholds, whatever the outcomes
\* of the alert queries: firing_alerts is the number of entries with firing =
\* True and the sum of critical_alerts and warning_alerts, total_checks is the
\* number of entries (5), an alert is firing exactly when its query succeeded
\* with a non-empty result list, and an entry carries data only when it is
\* firing.  The counts agree with the entries after every alert of the loop.
C30_AlertSummaryConsistent ==
    tool = "prometheus.check_alerting_thresholds" =>
        /\ summary.firing_alerts = Cardinality(Firing)
        /\ summary.firing_alerts = summary.critical_alerts + summary.warning_alerts
        /\ summary.critical_alerts
              = Cardinality({i \in Firing : alert_queries[i].severity = "critical"})
        /\ \A i \in 1..Len(entries) : entries[i].data => entries[i].firing
        /\ (resp # NoOutcome /\ result.k # "exc") =>
              (LastEntry.firing <=> AlertQueryFired(resp))
        /\ (pc = "done" /\ result.k = "ret") =>
              /\ summary.total_checks = Len(entries)
              /\ Len(entries) = 5

C30_Witness ==
    /\ tool = "prometheus.check_alerting_thresholds"
    /\ pc = "done"
    /\ result.k = "ret"
    /\ entries[1].firing
    /\ entries[2].error
    /\ ~entries[3].firing
    /\ ~entries[3].error
    /\ entries[5].firing
    /\ summary.firing_alerts >= 2
    /\ summary.warning_alerts >= 1
    /\ summary.critical_alerts >= 1


-----------------------------------------------------------------------------
(* Properties of the metrics metadata                                       *)

\* get_metrics_metadata has returned its result of a success answer.
MetadataReturned ==
    /\ call.tool = "prometheus.get_metrics_metadata"
    /\ stage = "done"
    /\ out.k = "ret"

\* The metric names of the answer whose value is a non-empty list.
Described == {m \in DOMAIN reply.content :
                reply.content[m].list /\ reply.content[m].items # << >>}

\* C29: for every success answer of the metadata endpoint, total_metrics of
\* the result is the number of entries of its metrics mapping: every metric
\* name counted has an entry, also a name whose list is empty or whose value
\* is no list.
C29_TotalMetricsCountsEntries ==
    MetadataReturned =>
        /\ out.val.total_metrics = Cardinality(DOMAIN out.val.metrics)
        /\ DOMAIN out.val.metrics = DOMAIN reply.content

\* What holds of get_metrics_metadata: total_metrics is the number of metric
\* names of the answer, and metrics has an entry, built from the first item
\* with the defaults "unknown", "" and "", for exactly the names whose value is
\* a non-empty list; so total_metrics is at least the number of entries, and
\* larger by the number of names with an empty list or a value that is no list.
TotalMetricsCountsNames ==
    MetadataReturned =>
        /\ out.val.total_metrics = Cardinality(DOMAIN reply.content)
        /\ DOMAIN out.val.metrics = Described
        /\ out.val.total_metrics
              = Cardinality(DOMAIN out.val.metrics)
                + Cardinality(DOMAIN reply.content \ Described)
        /\ \A m \in Described :
              LET info == reply.content[m].items[1]
              IN  /\ out.val.metrics[m].type = get(info.type, "unknown")
                  /\ out.val.metrics[m].help = get(info.help, "")
                  /\ out.val.metrics[m].unit = get(info.unit, "")

MetricsCountedWithoutEntry ==
    /\ MetadataReturned
    /\ out.val.total_metrics = 3
    /\ DOMAIN out.val.metrics = {"up"}
    /\ reply.content["go_goroutines"] = InfoList(<< >>)
    /\ reply.content["http_requests_total"] = NotAList


-----------------------------------------------------------------------------
(* Properties of the Assistant                                              *)

\* The Assistant a method was called on was not initialized or had no agent.
WithoutAgent(self) == ~is_initialized(self) \/ self.agent.kind # "object"

\* C22: invoke raises RuntimeError, without calling the agent, whenever the
\* assistant is not initialized or has no agent (before initialize, after an
\* initialize that failed, after one during which the agent creation failed,
\* after cleanup), and never fails with another exception kind there.
C22_InvokeRaisesRuntimeError ==
    (done.op = "invoke" /\ WithoutAgent(done.before)) =>
        /\ done.res.k = "exc"
        /\ done.res.exc = "RuntimeError"
        /\ "ainvoke" \notin done.calls

\* What holds of invoke: without an agent it raises and does not call the
\* agent; it raises RuntimeError when the assistant is not initialized or its
\* agent is None, and AttributeError when the assistant is initialized and
\* its agent attribute was never assigned.
InvokeRaisesWithoutAgent ==
    (done.op = "invoke" /\ WithoutAgent(done.before)) =>
        /\ done.res.k = "exc"
        /\ "ainvoke" \notin done.calls
        /\ assistant = done.before
        /\ done.res.exc = IF is_initialized(done.before) /\ done.before.agent.kind = "unset"
                          THEN "AttributeError" ELSE "RuntimeError"

InvokeRaisesAttributeError ==
    /\ done.op = "invoke"
    /\ is_initialized(done.before)
    /\ done.before.agent = Unset
    /\ done.res.exc = "AttributeError"


\* C23: cleanup and cleanup_mcp_client never raise, whatever the state of the
\* Assistant (never initialized, initialization failed part-way, initialized,
\* already cleaned up) and whether or not the close operation of the client
\* fails; after cleanup is_initialized is False and mcp_client, agent and
\* system_prompt are None, and a further cleanup leaves that state unchanged.
C23_CleanupNeverRaises ==
    done.op \in {"cleanup", "cleanup_mcp_client"} =>
        /\ done.res = ReturnedNone
        /\ ~is_initialized(assistant)
        /\ assistant.mcp_client = None
        /\ assistant.agent = None
        /\ assistant.system_prompt = None
        /\ done.before = Cleared => assistant = done.before
        /\ "close" \in done.calls <=> done.before.mcp_client.kind = "object"

C23_Witness ==
    /\ done.op = "cleanup"
    /\ done.before.mcp_client = Unset
    /\ done.before.agent = Unset
    /\ done.before.system_prompt # None
    /\ assistant = Cleared

\* cleanup of an initialized Assistant whose close operation fails, and
\* cleanup of an Assistant already cleaned up.
CleanupWithFailingClose ==
    /\ done.op = "cleanup"
    /\ is_initialized(done.before)
    /\ ~done.env.closed
    /\ assistant = Cleared

CleanupTwice ==
    /\ done.op = "cleanup"
    /\ done.before = Cleared
    /\ assistant = Cleared

\* C26 as claimed: is_initialized implies that mcp_client and agent are both
\* set to objects, and an initialize during which the client setup, the tool
\* retrieval or the agent creation failed leaves is_initialized False.
C26_InitializedHasClientAndAgent ==
    /\ is_initialized(assistant) =>
          /\ assistant.mcp_client.kind = "object"
          /\ assistant.agent.kind = "object"
    /\ (/\ done.op = "initialize"
        /\ ~is_initialized(done.before)
        /\ (~done.env.client \/ done.env.tools = "fault" \/ ~done.env.agent))
          => ~is_initialized(assistant)

\* What holds: is_initialized implies that mcp_client is set to an object,
\* and a failed tool retrieval leaves is_initialized False; a failed agent
\* creation does not, and leaves agent as it was (never assigned, or None).
InitializedHasClient ==
    /\ is_initialized(assistant) => assistant.mcp_client.kind = "object"
    /\ (/\ done.op = "initialize"
        /\ ~is_initialized(done.before)) =>
          /\ done.env.tools = "fault" => ~is_initialized(assistant)
          /\ (is_initialized(assistant) /\ ~done.env.agent) =>
                /\ assistant.agent = done.before.agent
                /\ assistant.agent.kind # "object"

InitializedWithoutAgent ==
    /\ done.op = "initialize"
    /\ ~done.env.agent
    /\ is_initialized(assistant)
    /\ assistant.agent = Unset

\* C28: initialize on an Assistant that is initialized changes nothing:
\* mcp_client, agent, system_prompt and is_initialized are as before, also
\* when another configuration or system prompt is passed, and no MCP client
\* is created, no tools are retrieved and no agent is created.
C28_InitializeTwiceIsNoOp ==
    (done.op = "initialize" /\ is_initialized(done.before)) =>
        /\ assistant = done.before
        /\ done.calls = {}
        /\ done.res = ReturnedNone

C28_Witness ==
    /\ done.op = "initialize"
    /\ is_initialized(done.before)
    /\ done.before.agent.kind = "object"
    /\ done.with[1] \notin {"", done.before.mcp_client.of}
    /\ done.with[2] \notin {"", done.before.system_prompt.of}
    /\ done.env.client
    /\ done.env.tools = "tools"
    /\ done.env.agent
    /\ assistant = done.before


-----------------------------------------------------------------------------
(* Properties of the application                                            *)

\* The history alternates user, assistant and has even length.
Alternating(history) ==
    /\ Len(history) % 2 = 0
    /\ \A i \in 1..Len(history) :
          history[i].role = IF i % 2 = 1 THEN "user" ELSE "assistant"

C25_ResetRestartsAssistant ==
    script.op = "button" =>
        /\ session.messages = << >>
        /\ "thread_id" \in session.keys
        /\ session.thread_id # script.before.thread_id
        /\ "cleanup" \in script.calls
        /\ {"Assistant()", "initialize"} \subseteq script.calls
        /\ is_initialized(session.assistant)

\* What holds of the reset: the history is empty and a new thread id is
\* generated; the Assistant of the session is the one held before, with its
\* attributes untouched: it is not cleaned up and none is created.
ResetKeepsAssistant ==
    script.op = "button" =>
        /\ session.messages = << >>
        /\ "thread_id" \in session.keys
        /\ session.thread_id = script.uuids
        /\ session.thread_id > script.before.thread_id
        /\ "assistant" \in script.before.keys
        /\ "assistant" \in session.keys
        /\ session.assistant = script.before.assistant
        /\ script.calls = {}
        /\ script.widgets

ResetWithoutCleanup ==
    /\ script.op = "button"
    /\ script.before.messages # << >>
    /\ is_initialized(session.assistant)
    /\ session.assistant.mcp_client.kind = "object"
    /\ script.calls = {}

\* C27: a failed initialization is not permanent: when Assistant.initialize
\* fails the uninitialized Assistant is not kept in the session state, so
\* that a later run initializes again.
C27_FailedInitializationRetried ==
    /\ "assistant" \in session.keys => is_initialized(session.assistant)
    /\ ("assistant" \in script.before.keys /\ ~is_initialized(script.before.assistant))
          => "initialize" \in script.calls

\* What holds: an Assistant stored in the session state stays there, with
\* its attributes, through every later run, initialized or not; no later run
\* calls initialize, and every prompt submitted to an uninitialized Assistant
\* is answered with the error text of "Assistant not initialized".  Only a
\* failure to load the configuration or the prompt, before the Assistant is
\* created, is tried again by the next run.
UninitializedAssistantKept ==
    /\ "assistant" \in script.before.keys =>
          /\ "assistant" \in session.keys
          /\ session.assistant = script.before.assistant
          /\ "initialize" \notin script.calls
    /\ (/\ script.op = "prompt"
        /\ ~is_initialized(session.assistant)) =>
          /\ session.messages[Len(session.messages)].error
          /\ session.messages[Len(session.messages)].content
                = "Assistant not initialized. Call initialize() first."
    /\ script.stopped => "assistant" \notin session.keys

NotInitializedForever ==
    /\ script.op = "prompt"
    /\ Len(session.messages) = 4
    /\ ~is_initialized(session.assistant)
    /\ session.messages[2].content = "Assistant not initialized. Call initialize() first."
    /\ session.messages[4].content = "Assistant not initialized. Call initialize() first."

=============================================================================
